---- MODULE Spec2Model ----
(***************************************************************************)
(* MockEpochManager and KeyValueRuntime of chain/chain/src/test_utils/     *)
(* kv_runtime.rs as a state machine.                                       *)
(*                                                                         *)
(* A CryptoHash is a natural number, CryptoHash::default() is 0, and       *)
(* EpochId(h) is the hash h it wraps.  An Option<T> is a sequence of       *)
(* length at most one.  A HashMap is a function whose DOMAIN is its key    *)
(* set.  A call that panics (unwrap of None, assert, unreachable) ends     *)
(* with kind "Panic"; the tables keep what was inserted before the panic.  *)
(***************************************************************************)
EXTENDS Integers, Sequences, FiniteSets, TLC

\* ------------------------------------------------------------- bounds
\* Number of block headers the header store comes to hold.
MaxBlocks == 3

\* Number of state roots the ledger table comes to hold.
MaxRoots == 3

\* Number of receipts and transactions in one chunk.
MaxChunk == 2

\* Threads that call the epoch manager side by side
MaxThreads == 2

\* Number of validator sets of the longest schedule a manager is built with.
MaxSchedule == 4

\* ---------------------------------------------------------- constants
DefaultHash == 0

\* The hashes of the headers the store may hold, in the order they are stored.
Hashes == 1 .. MaxBlocks

\* A hash no stored header has: a block whose header the store does not hold.
UnknownHash == MaxBlocks + 1

\* The epoch lengths MockEpochManager is constructed with.
EpochLengths == {1, 2, 3}

\* The ValidatorSchedule the managers are built from.
block_producers_per_epoch == << <<"alice", "bob">>, <<"bob", "carol">> >>

validator_groups == 2

num_shards == 2

ShardIds == 0 .. (num_shards - 1)

\* The account ids in use, in the order of AccountId's Ord.
AccountOrder == <<"alice", "bob", "carol", "dave">>

AccountIds == {AccountOrder[i] : i \in 1 .. Len(AccountOrder)}

AccountRank(a) == CHOOSE i \in 1 .. Len(AccountOrder) : AccountOrder[i] = a

\* account_id_to_shard_id under ShardLayout::v0(num_shards, 0): a fixed assignment
\* by the hash of the account id.
account_id_to_shard_id(account_id) ==
    IF account_id = "carol" THEN 0 ELSE 1

\* chunk_producers of one validator set, by shard index (from 1)
ChunkProducersOf(block_producers) ==
    [shard_index \in 1 .. num_shards |->
        LET validators_per_shard == Len(block_producers) \div validator_groups
            coefficient == Len(block_producers) \div num_shards
            offset == (((shard_index - 1) * coefficient) \div validators_per_shard)
                          * validators_per_shard
        IN  SubSeq(block_producers, offset + 1, offset + validators_per_shard)]

\* ValidatorSchedule::chunk_only_producers: per validator set and shard, the accounts
\* that produce chunks only; none of them is a block producer of any set.
chunk_only_producers == << << <<"dave">>, <<>> >>, << <<>>, <<>> >> >>

\* validators_by_valset: one validator set per slot, reused cyclically.  A stake
\* record is determined by its account, and the sets hold the accounts.
validators_by_valset ==
    [i \in 1 .. Len(block_producers_per_epoch) |->
        [block_producers |-> block_producers_per_epoch[i],
         chunk_producers |->
             [shard_index \in 1 .. num_shards |->
                 ChunkProducersOf(block_producers_per_epoch[i])[shard_index]
                     \o chunk_only_producers[i][shard_index]]]]

\* ValidatorStake::new(account_id, public key from the seed account_id, 1_000_000)
ValidatorStake(account_id) ==
    [account_id |-> account_id, public_key |-> <<"ED25519", account_id>>,
     stake |-> 1000000]

VARIABLES
    \* the external block-header store (DBCol::BlockHeader)
    store,
    \* MockEpochManager
    epoch_length,
    headers_cache,
    hash_to_epoch,
    hash_to_next_epoch_approvals_req,
    hash_to_next_epoch,
    hash_to_valset,
    epoch_start,
    \* how the last MockEpochManager call ended
    eret,
    \* the get_epoch_and_valset calls that run side by side, each at its own step
    queries,
    \* the MockEpochManager calls of the threads, each at its own lock
    threads,
    \* how the last query about the shards of a neighbouring epoch ended
    slot_query,
    \* KeyValueRuntime
    state,
    state_size,
    \* how the last KeyValueRuntime call ended
    kret,
    \* the apply_chunk calls that run side by side, each at its own step
    calls

epochTables ==
    <<hash_to_epoch, hash_to_next_epoch_approvals_req, hash_to_next_epoch,
      hash_to_valset, epoch_start>>

epochVars ==
    <<store, epoch_length, headers_cache, epochTables, eret, queries, threads,
      slot_query>>

ledgerVars == <<state, state_size, kret, calls>>

\* What the calls on the tables of the manager leave alone
elsewhere == <<ledgerVars, threads, slot_query>>

vars == <<epochVars, ledgerVars>>

\* ------------------------------------------------------------ helpers
\* HashMap::insert
Put(f, k, v) == [x \in (DOMAIN f) \cup {k} |-> IF x = k THEN v ELSE f[x]]

\* HashMap::from([(k, v)])
MapOf(k, v) == [x \in {k} |-> v]

EmptyMap == [x \in {} |-> 0]

\* A lookup that answers 0 for a key the map does not hold
GetOrZero(f, k) == IF k \in DOMAIN f THEN <<f[k]>> ELSE <<0>>

\* HashMap::get
Get(f, k) == IF k \in DOMAIN f THEN <<f[k]>> ELSE <<>>

IsSome(o) == o # <<>>

RECURSIVE AncestorsOrSelf(_)
AncestorsOrSelf(h) ==
    IF h = DefaultHash \/ h \notin DOMAIN store THEN {}
    ELSE {h} \cup AncestorsOrSelf(store[h].prev_hash)

\* ------------------------------------------------- MockEpochManager
NoEpochResult ==
    [op |-> "none", arg |-> DefaultHash, kind |-> "none", epoch |-> DefaultHash,
     valset |-> 0, next_epoch |-> DefaultHash, err |-> DefaultHash,
     increment_epoch |-> FALSE, cause |-> "none", memoized_before |-> FALSE,
     height |-> 0, part_id |-> 0, shard_id |-> 0, account_id |-> "none",
     err_account |-> "none", value |-> <<>>, cached_before |-> FALSE,
     other |-> DefaultHash]

\* MockEpochManager::get_block_header: the header, from the cache or else the store.
get_block_header(cache, hash) ==
    IF hash \in DOMAIN cache THEN <<cache[hash]>>
    ELSE IF hash \in DOMAIN store THEN <<store[hash]>>
    ELSE <<>>

\* MockEpochManager::get_block_header: the cache after the lookup.
CacheAfterLookup(cache, hash) ==
    IF hash \notin DOMAIN cache /\ hash \in DOMAIN store
    THEN Put(cache, hash, store[hash])
    ELSE cache

\* last_final_height of get_epoch_and_valset; the header is there when this is used.
LastFinalHeight(cache, prev_block_header) ==
    IF prev_block_header.last_final_block = DefaultHash THEN 0
    ELSE get_block_header(cache, prev_block_header.last_final_block)[1].height

\* increment_epoch with the epoch kept one block longer
IncrementEpochLate(prev_prev_hash, last_final_height, prev_epoch_start) ==
    \/ prev_prev_hash = DefaultHash
    \/ last_final_height + 2 >= prev_epoch_start + epoch_length

\* increment_epoch of get_epoch_and_valset
IncrementEpoch(prev_prev_hash, last_final_height, prev_epoch_start) ==
    \/ prev_prev_hash = DefaultHash
    \/ last_final_height + 3 >= prev_epoch_start + epoch_length

\* needs_next_epoch_approvals that never asks for approvals
NeedsNextEpochApprovalsNever(increment_epoch, last_final_height, prev_epoch_start, height) ==
    FALSE

\* needs_next_epoch_approvals of get_epoch_and_valset
NeedsNextEpochApprovals(increment_epoch, last_final_height, prev_epoch_start, height) ==
    /\ ~increment_epoch
    /\ last_final_height + 3 < prev_epoch_start + epoch_length
    /\ height + 3 >= prev_epoch_start + epoch_length

\* new_valset going up by two at an epoch boundary
NewValsetSkipping(prev_valset) ==
    IF IsSome(prev_valset) THEN prev_valset[1] + 2 ELSE 0

\* new_valset of get_epoch_and_valset
NewValset(prev_valset) ==
    IF IsSome(prev_valset) THEN prev_valset[1] + 1 ELSE 0

\* The incremented assignment with the two epoch ids the other way round
IncrementedAssignmentSwapped(prev_hash, prev_next_epoch, prev_valset, height) ==
    [epoch |-> prev_hash, next_epoch |-> prev_next_epoch,
     valset |-> NewValset(prev_valset), epoch_start |-> height + 1]

\* (epoch, next_epoch, valset, epoch_start) of get_epoch_and_valset when the epoch
\* is incremented
IncrementedAssignment(prev_hash, prev_next_epoch, prev_valset, height) ==
    [epoch |-> prev_next_epoch, next_epoch |-> prev_hash,
     valset |-> NewValset(prev_valset), epoch_start |-> height + 1]

\* The carried assignment with the valset index moved on all the same
CarriedAssignmentBumped(prev_epoch, prev_next_epoch, prev_valset, prev_epoch_start) ==
    [epoch |-> prev_epoch, next_epoch |-> prev_next_epoch,
     valset |-> prev_valset + 1, epoch_start |-> prev_epoch_start]

\* (epoch, next_epoch, valset, epoch_start) of get_epoch_and_valset when it is not
CarriedAssignment(prev_epoch, prev_next_epoch, prev_valset, prev_epoch_start) ==
    [epoch |-> prev_epoch, next_epoch |-> prev_next_epoch,
     valset |-> prev_valset, epoch_start |-> prev_epoch_start]

\* The registered valset index returned as it is
ReturnedValsetUnreduced(valset) == valset

\* The valset index get_epoch_and_valset returns for the one it registered.
ReturnedValset(valset) == valset % Len(validators_by_valset)

\* An unknown prev_hash answered like the default hash
MissingPrevHeaderAsGenesis(prev_hash) ==
    [kind |-> "Ok", err |-> DefaultHash, cause |-> "none"]

\* The result for a prev_hash whose header is neither cached nor stored.
MissingPrevHeader(prev_hash) ==
    [kind |-> "Err", err |-> prev_hash, cause |-> "MissingBlock"]

\* The five tables the write locks of get_epoch_and_valset guard, as they are
TablesNow ==
    [hash_to_epoch |-> hash_to_epoch,
     hash_to_next_epoch_approvals_req |-> hash_to_next_epoch_approvals_req,
     hash_to_next_epoch |-> hash_to_next_epoch,
     hash_to_valset |-> hash_to_valset,
     epoch_start |-> epoch_start]

\* The computation of get_epoch_and_valset(prev_hash) for a non-default prev_hash
\* whose header is there, from the tables t and the header cache: how it ends and,
\* when it ends well, what it inserts.
EpochComputationOn(t, cache, prev_hash) ==
    LET prev_block_header == get_block_header(cache, prev_hash)[1]
        cache1            == CacheAfterLookup(cache, prev_hash)
        prev_prev_hash    == prev_block_header.prev_hash
        prev_epoch        == Get(t.hash_to_epoch, prev_prev_hash)
        prev_next_epoch   == Get(t.hash_to_next_epoch, prev_prev_hash)
        prev_valset       == IF IsSome(prev_epoch)
                             THEN Get(t.hash_to_valset, prev_epoch[1]) ELSE <<>>
        prev_epoch_start  == Get(t.epoch_start, prev_prev_hash)
        lfb               == prev_block_header.last_final_block
        cache2            == CacheAfterLookup(cache1, lfb)
        panic(cause, cache_then) ==
            [kind |-> "Panic", cause |-> cause, cache |-> cache_then,
             increment_epoch |-> FALSE]
    IN  IF ~IsSome(prev_next_epoch) THEN panic("prev_next_epoch", cache1)
        ELSE IF IsSome(prev_epoch) /\ ~IsSome(prev_valset) THEN panic("prev_valset", cache1)
        ELSE IF ~IsSome(prev_epoch_start) THEN panic("prev_epoch_start", cache1)
        ELSE IF lfb # DefaultHash /\ ~IsSome(get_block_header(cache1, lfb))
             THEN panic("last_final_block", cache1)
        ELSE
        LET last_final_height == LastFinalHeight(cache1, prev_block_header)
            increment_epoch   ==
                IncrementEpoch(prev_prev_hash, last_final_height, prev_epoch_start[1])
            approvals ==
                NeedsNextEpochApprovals(increment_epoch, last_final_height,
                                        prev_epoch_start[1], prev_block_header.height)
        IN  IF ~increment_epoch /\ ~IsSome(prev_epoch) THEN panic("prev_epoch", cache2)
            ELSE
            [kind |-> "Ok", cause |-> "none", cache |-> cache2,
             increment_epoch |-> increment_epoch,
             approvals |-> approvals,
             a |-> IF increment_epoch
                   THEN IncrementedAssignment(prev_hash, prev_next_epoch[1], prev_valset,
                                              prev_block_header.height)
                   ELSE CarriedAssignment(prev_epoch[1], prev_next_epoch[1],
                                          prev_valset[1], prev_epoch_start[1])]

\* The computation from the tables and the header cache of the manager
EpochComputation(prev_hash) == EpochComputationOn(TablesNow, headers_cache, prev_hash)

\* Only the epoch itself registered, not the next one
RegisterValsetsEpochOnly(valsets, epoch, next_epoch, valset) ==
    Put(valsets, epoch, valset)

\* hash_to_valset after get_epoch_and_valset's two inserts
RegisterValsets(valsets, epoch, next_epoch, valset) ==
    Put(Put(valsets, epoch, valset), next_epoch, valset + 1)

\* What every get_epoch_and_valset(prev_hash) result records of the call:
\* memoized_before tells whether prev_hash had an assignment when the call began,
\* cached_before whether its header was in the cache then.
EpochCall(prev_hash) ==
    [NoEpochResult EXCEPT !.op = "get_epoch_and_valset", !.arg = prev_hash,
                          !.memoized_before = prev_hash \in DOMAIN hash_to_epoch,
                          !.cached_before = prev_hash \in DOMAIN headers_cache]

\* The inserts made into tables emptied first
MemoizeForgetting(prev_hash, c) ==
    /\ hash_to_next_epoch' = MapOf(prev_hash, c.a.next_epoch)
    /\ hash_to_epoch' = MapOf(prev_hash, c.a.epoch)
    /\ hash_to_next_epoch_approvals_req' = MapOf(prev_hash, c.approvals)
    /\ hash_to_valset' =
           RegisterValsets(EmptyMap, c.a.epoch, c.a.next_epoch, c.a.valset)
    /\ epoch_start' = MapOf(prev_hash, c.a.epoch_start)

\* The six inserts of get_epoch_and_valset, c being its computation for prev_hash.
MemoizeAssignment(prev_hash, c) ==
    /\ hash_to_next_epoch' = Put(hash_to_next_epoch, prev_hash, c.a.next_epoch)
    /\ hash_to_epoch' = Put(hash_to_epoch, prev_hash, c.a.epoch)
    /\ hash_to_next_epoch_approvals_req' =
           Put(hash_to_next_epoch_approvals_req, prev_hash, c.approvals)
    /\ hash_to_valset' =
           RegisterValsets(hash_to_valset, c.a.epoch, c.a.next_epoch, c.a.valset)
    /\ epoch_start' = Put(epoch_start, prev_hash, c.a.epoch_start)

\* MockEpochManager::get_epoch_and_valset(prev_hash)
get_epoch_and_valset(prev_hash) ==
    /\ UNCHANGED <<store, epoch_length, elsewhere, queries>>
    /\ IF prev_hash = DefaultHash
       THEN /\ eret' = [EpochCall(prev_hash) EXCEPT !.kind = "Ok"]
            /\ UNCHANGED <<headers_cache, epochTables>>
       ELSE IF ~IsSome(get_block_header(headers_cache, prev_hash))
       THEN /\ eret' = [EpochCall(prev_hash) EXCEPT
                            !.kind = MissingPrevHeader(prev_hash).kind,
                            !.err = MissingPrevHeader(prev_hash).err,
                            !.cause = MissingPrevHeader(prev_hash).cause]
            /\ UNCHANGED <<headers_cache, epochTables>>
       ELSE LET c == EpochComputation(prev_hash) IN
            /\ headers_cache' = c.cache
            /\ IF c.kind = "Panic"
               THEN /\ eret' = [EpochCall(prev_hash) EXCEPT !.kind = "Panic",
                                    !.cause = c.cause]
                    /\ UNCHANGED epochTables
               ELSE /\ MemoizeAssignment(prev_hash, c)
                    /\ eret' = [EpochCall(prev_hash) EXCEPT !.kind = "Ok",
                                    !.epoch = c.a.epoch,
                                    !.valset = ReturnedValset(c.a.valset),
                                    !.next_epoch = c.a.next_epoch,
                                    !.increment_epoch = c.increment_epoch]

\* ValidatorStake::get_approval_stake of the validator with this account
ApprovalStake(account_id, is_next_epoch) ==
    [account_id |-> account_id,
     stake_this_epoch |-> IF is_next_epoch THEN 0 ELSE 1000000,
     stake_next_epoch |-> IF is_next_epoch THEN 1000000 ELSE 0]

\* The approvers of the current epoch, and after them those block producers of the
\* next epoch whose account is not among them when approvals for it are needed.
ApproversOrdered(cur_valset, next_valset, needs_next_epoch_approvals) ==
    LET current == validators_by_valset[cur_valset + 1].block_producers
        next    == validators_by_valset[next_valset + 1].block_producers
        NotListed(x) == \A i \in 1 .. Len(current) : current[i] # x
        validators == [i \in 1 .. Len(current) |-> ApprovalStake(current[i], FALSE)]
        newcomers  == SelectSeq(next, NotListed)
    IN  IF needs_next_epoch_approvals
        THEN validators
                 \o [i \in 1 .. Len(newcomers) |-> ApprovalStake(newcomers[i], TRUE)]
        ELSE validators

\* MockEpochManager::get_epoch_block_approvers_ordered(parent_hash): the query for
\* parent_hash with all its inserts, then the flag memoized for parent_hash, which
\* the default hash never has.
get_epoch_block_approvers_ordered(parent_hash) ==
    LET call == [EpochCall(parent_hash) EXCEPT
                    !.op = "get_epoch_block_approvers_ordered"]
    IN
    /\ UNCHANGED <<store, epoch_length, elsewhere, queries>>
    /\ IF parent_hash = DefaultHash
       THEN /\ eret' = [call EXCEPT !.kind = "Panic", !.cause = "approvals_req"]
            /\ UNCHANGED <<headers_cache, epochTables>>
       ELSE IF ~IsSome(get_block_header(headers_cache, parent_hash))
       THEN /\ eret' = [call EXCEPT
                            !.kind = MissingPrevHeader(parent_hash).kind,
                            !.err = MissingPrevHeader(parent_hash).err,
                            !.cause = MissingPrevHeader(parent_hash).cause]
            /\ UNCHANGED <<headers_cache, epochTables>>
       ELSE LET c == EpochComputation(parent_hash) IN
            /\ headers_cache' = c.cache
            /\ IF c.kind = "Panic"
               THEN /\ eret' = [call EXCEPT !.kind = "Panic", !.cause = c.cause]
                    /\ UNCHANGED epochTables
               ELSE /\ MemoizeAssignment(parent_hash, c)
                    /\ eret' = [call EXCEPT
                           !.kind = "Ok",
                           !.epoch = c.a.epoch,
                           !.valset = ReturnedValset(c.a.valset),
                           !.next_epoch = c.a.next_epoch,
                           !.increment_epoch = c.increment_epoch,
                           !.value =
                               <<ApproversOrdered(
                                   ReturnedValset(c.a.valset),
                                   RegisterValsets(hash_to_valset, c.a.epoch,
                                                   c.a.next_epoch, c.a.valset)[c.a.next_epoch]
                                       % Len(validators_by_valset),
                                   c.approvals)>>]

\* The tables t after the six inserts of get_epoch_and_valset, c being its
\* computation for prev_hash.
Memoized(t, prev_hash, c) ==
    [hash_to_next_epoch |-> Put(t.hash_to_next_epoch, prev_hash, c.a.next_epoch),
     hash_to_epoch |-> Put(t.hash_to_epoch, prev_hash, c.a.epoch),
     hash_to_next_epoch_approvals_req |->
         Put(t.hash_to_next_epoch_approvals_req, prev_hash, c.approvals),
     hash_to_valset |->
         RegisterValsets(t.hash_to_valset, c.a.epoch, c.a.next_epoch, c.a.valset),
     epoch_start |-> Put(t.epoch_start, prev_hash, c.a.epoch_start)]

\* The manager as a call made by another call finds it: the tables and the cache.
ManagerNow == [t |-> TablesNow, cache |-> headers_cache]

\* What a call made by another call hands back: how it ended, the epoch id or the
\* flag it returns and the manager m as it leaves it.
Returned(m) ==
    [kind |-> "Ok", cause |-> "none", err |-> DefaultHash, epoch |-> DefaultHash,
     flag |-> FALSE, m |-> m]

\* How get_epoch_and_valset(prev_hash) ends on the manager m once its computation
\* c is made: a panic leaves the tables, a return makes the six inserts.
EndOfEpochQuery(m, prev_hash, c) ==
    IF c.kind = "Panic"
    THEN [Returned([m EXCEPT !.cache = c.cache]) EXCEPT
              !.kind = "Panic", !.cause = c.cause]
    ELSE [Returned([t |-> Memoized(m.t, prev_hash, c), cache |-> c.cache]) EXCEPT
              !.epoch = c.a.epoch]

\* get_epoch_and_valset(prev_hash) called on the manager m.
EpochAndValsetOn(m, prev_hash) ==
    IF prev_hash = DefaultHash THEN Returned(m)
    ELSE IF ~IsSome(get_block_header(m.cache, prev_hash))
    THEN [Returned(m) EXCEPT !.kind = MissingPrevHeader(prev_hash).kind,
                             !.err = MissingPrevHeader(prev_hash).err,
                             !.cause = MissingPrevHeader(prev_hash).cause]
    ELSE EndOfEpochQuery(m, prev_hash, EpochComputationOn(m.t, m.cache, prev_hash))

\* The comparison of is_next_block_epoch_start: first and second are what the two
\* epoch queries handed back, and one that failed ends the call (the ? operator).
EpochIdsDiffer(first, second) ==
    IF first.kind # "Ok" THEN first
    ELSE IF second.kind # "Ok" THEN second
    ELSE [Returned(second.m) EXCEPT !.flag = (first.epoch # second.epoch)]

\* The second epoch query of is_next_block_epoch_start, for the predecessor, made
\* on the manager as the first query left it.
ComparedWithPredecessor(first, prev_prev_hash) ==
    EpochIdsDiffer(first, EpochAndValsetOn(first.m, prev_prev_hash))

\* MockEpochManager::is_next_block_epoch_start(parent_hash) called on the manager
\* m: true for the default hash, else whether the epoch query gives parent_hash
\* and its predecessor different epoch ids.
is_next_block_epoch_start(m, parent_hash) ==
    IF parent_hash = DefaultHash THEN [Returned(m) EXCEPT !.flag = TRUE]
    ELSE IF ~IsSome(get_block_header(m.cache, parent_hash))
    THEN [Returned(m) EXCEPT !.kind = "Err", !.cause = "MissingBlock",
                             !.err = parent_hash]
    ELSE ComparedWithPredecessor(
             EpochAndValsetOn([m EXCEPT !.cache = CacheAfterLookup(m.cache, parent_hash)],
                              parent_hash),
             get_block_header(m.cache, parent_hash)[1].prev_hash)

\* The loop of get_prev_epoch_id_from_prev_block from candidate_hash on, on the
\* manager m.  Every turn moves to the predecessor, the default hash ends the loop,
\* and the headers of a store form no cycle.
RECURSIVE PrevEpochIdLoop(_, _)
\* The end of one turn of the loop, start being what is_next_block_epoch_start
\* handed back for candidate_hash: its failure ends the call, its true breaks the
\* loop with the epoch id of the candidate, its false goes on from the candidate.
LoopTurn(start, candidate_hash) ==
    IF start.kind # "Ok" THEN start
    ELSE IF start.flag THEN EpochAndValsetOn(start.m, candidate_hash)
    ELSE PrevEpochIdLoop(start.m, candidate_hash)

PrevEpochIdLoop(m, candidate_hash) ==
    IF ~IsSome(get_block_header(m.cache, candidate_hash))
    THEN [Returned(m) EXCEPT !.kind = "Err", !.cause = "MissingBlock",
                             !.err = candidate_hash]
    ELSE LoopTurn(
             is_next_block_epoch_start(
                 [m EXCEPT !.cache = CacheAfterLookup(m.cache, candidate_hash)],
                 get_block_header(m.cache, candidate_hash)[1].prev_hash),
             get_block_header(m.cache, candidate_hash)[1].prev_hash)

\* MockEpochManager::get_prev_epoch_id_from_prev_block(prev_block_hash), with the
\* inserts of every epoch query it makes; a query that panics leaves the inserts
\* of the queries before it.
get_prev_epoch_id_from_prev_block(prev_block_hash) ==
    LET call == [EpochCall(prev_block_hash) EXCEPT
                    !.op = "get_prev_epoch_id_from_prev_block"]
        r    == PrevEpochIdLoop(ManagerNow, prev_block_hash)
    IN
    /\ UNCHANGED <<store, epoch_length, elsewhere, queries>>
    /\ headers_cache' = r.m.cache
    /\ hash_to_epoch' = r.m.t.hash_to_epoch
    /\ hash_to_next_epoch_approvals_req' = r.m.t.hash_to_next_epoch_approvals_req
    /\ hash_to_next_epoch' = r.m.t.hash_to_next_epoch
    /\ hash_to_valset' = r.m.t.hash_to_valset
    /\ epoch_start' = r.m.t.epoch_start
    /\ eret' = [call EXCEPT !.kind = r.kind, !.cause = r.cause, !.err = r.err,
                            !.epoch = r.epoch]

\* The header store gains the header of a new block: built on a stored block or on
\* the default hash, its last final block the default hash, one of its ancestors, or
\* a block whose header the store does not hold.
StoreHeader(prev, lfb) ==
    LET h == Cardinality(DOMAIN store) + 1 IN
    /\ h \in Hashes
    /\ prev \in {DefaultHash} \cup DOMAIN store
    /\ lfb \in {DefaultHash, UnknownHash} \cup AncestorsOrSelf(prev)
    /\ store' = Put(store, h,
                    [prev_hash |-> prev,
                     height |-> IF prev = DefaultHash THEN 0 ELSE store[prev].height + 1,
                     last_final_block |-> lfb])
    /\ UNCHANGED <<epoch_length, headers_cache, epochTables, eret, elsewhere, queries>>

\* ----------------------- get_epoch_and_valset calls side by side
\* Two threads call get_epoch_and_valset at once.  A call looks up the header of
\* prev_hash under the lock of the header cache, then takes the write locks of the
\* five tables one after another and holds them until it returns or panics, so from
\* the first lock on no other call reads or writes a table.
QueryIds == {1, 2}

\* alone is how the call would end if it ran by itself from the tables as they are
\* when the pair starts, at_start those tables.
IdleQuery ==
    [pc |-> "idle", prev_hash |-> DefaultHash, kind |-> "none", cause |-> "none",
     epoch |-> DefaultHash, valset |-> 0, next_epoch |-> DefaultHash,
     alone |-> <<>>, at_start |-> <<>>]

\* How get_epoch_and_valset(prev_hash) ends from the tables as they are, and what it
\* memoizes when it returns for a stored block.
OutcomeNow(prev_hash) ==
    LET none == [kind |-> "Ok", cause |-> "none", epoch |-> DefaultHash, valset |-> 0,
                 next_epoch |-> DefaultHash, memo |-> <<>>]
    IN  IF prev_hash = DefaultHash THEN none
        ELSE IF ~IsSome(get_block_header(headers_cache, prev_hash))
        THEN [none EXCEPT !.kind = MissingPrevHeader(prev_hash).kind,
                          !.cause = MissingPrevHeader(prev_hash).cause]
        ELSE LET c == EpochComputation(prev_hash) IN
             IF c.kind = "Panic"
             THEN [none EXCEPT !.kind = "Panic", !.cause = c.cause]
             ELSE [none EXCEPT !.epoch = c.a.epoch,
                               !.valset = ReturnedValset(c.a.valset),
                               !.next_epoch = c.a.next_epoch,
                               !.memo = <<[a |-> c.a, approvals |-> c.approvals]>>]

QueriesIdle == \A i \in QueryIds : queries[i].pc = "idle"

\* Two threads start a query each.
BeginQueries(prev_hash_1, prev_hash_2) ==
    /\ QueriesIdle
    /\ eret.kind = "none"
    /\ queries' = [i \in QueryIds |->
                      LET h == IF i = 1 THEN prev_hash_1 ELSE prev_hash_2 IN
                      [IdleQuery EXCEPT !.pc = "started", !.prev_hash = h,
                                        !.alone = <<OutcomeNow(h)>>,
                                        !.at_start = <<TablesNow>>]]
    /\ UNCHANGED <<store, epoch_length, headers_cache, epochTables, eret, elsewhere>>

\* The early return for the default hash, or the lookup of the header of prev_hash.
LookupHeaderStep(i) ==
    LET q == queries[i] IN
    /\ q.pc = "started"
    /\ UNCHANGED <<store, epoch_length, epochTables, eret, elsewhere>>
    /\ IF q.prev_hash = DefaultHash
       THEN /\ queries' = [queries EXCEPT ![i].pc = "done", ![i].kind = "Ok"]
            /\ UNCHANGED headers_cache
       ELSE IF ~IsSome(get_block_header(headers_cache, q.prev_hash))
       THEN /\ queries' = [queries EXCEPT
                               ![i].pc = "done",
                               ![i].kind = MissingPrevHeader(q.prev_hash).kind,
                               ![i].cause = MissingPrevHeader(q.prev_hash).cause]
            /\ UNCHANGED headers_cache
       ELSE /\ headers_cache' = CacheAfterLookup(headers_cache, q.prev_hash)
            /\ queries' = [queries EXCEPT ![i].pc = "waiting"]

\* No other call holds the write locks of the tables.
LocksFree(i) == \A j \in QueryIds \ {i} : queries[j].pc # "locked"

\* hash_to_epoch.write() and the four write locks after it
AcquireLocksStep(i) ==
    /\ queries[i].pc = "waiting"
    /\ LocksFree(i)
    /\ queries' = [queries EXCEPT ![i].pc = "locked"]
    /\ UNCHANGED <<store, epoch_length, headers_cache, epochTables, eret, elsewhere>>

\* Under the locks: the reads, the lookup of the last final block, the inserts,
\* and the return; a panic releases the locks with the tables as they were.
FinishQueryStep(i) ==
    LET q == queries[i]
        c == EpochComputation(q.prev_hash)
    IN
    /\ q.pc = "locked"
    /\ UNCHANGED <<store, epoch_length, eret, elsewhere>>
    /\ headers_cache' = c.cache
    /\ IF c.kind = "Panic"
       THEN /\ queries' = [queries EXCEPT ![i].pc = "done", ![i].kind = "Panic",
                                          ![i].cause = c.cause]
            /\ UNCHANGED epochTables
       ELSE /\ MemoizeAssignment(q.prev_hash, c)
            /\ queries' = [queries EXCEPT
                               ![i].pc = "done", ![i].kind = "Ok",
                               ![i].epoch = c.a.epoch,
                               ![i].valset = ReturnedValset(c.a.valset),
                               ![i].next_epoch = c.a.next_epoch]

QueriesDone == \A i \in QueryIds : queries[i].pc = "done"

\* Both threads are joined.
JoinQueries ==
    /\ QueriesDone
    /\ queries' = [i \in QueryIds |-> IdleQuery]
    /\ UNCHANGED <<store, epoch_length, headers_cache, epochTables, eret, elsewhere>>

\* No query about the shards of a neighbouring epoch made yet: len is the number
\* of validator sets of the manager asked, valset the slot its epoch query
\* returned for parent_hash, consulted the slot whose chunk producers were read.
NoSlotQuery ==
    [op |-> "none", len |-> 1, valset |-> 0, account_id |-> "none", shard_id |-> 0,
     kind |-> "none", consulted |-> 0, value |-> FALSE]

\* ------------------------------------- the locks of MockEpochManager
\* The header cache and the five tables are each behind a parking_lot RwLock of
\* its own.  A call is the sequence of its lock steps: a guard is taken where the
\* code calls write() or read() and given back where the guard goes out of scope,
\* at a return, a ? or a panic alike (the guards are dropped on unwind and the
\* locks do not poison).  Which way a call goes depends on the tables; here every
\* way is open to every call.
ThreadIds == 1 .. MaxThreads

IdleThread == [op |-> "none", todo |-> <<>>, held |-> {}]

Acquire(lock, mode) == [do |-> "acquire", locks |-> {lock}, mode |-> mode]

Release(locks) == [do |-> "release", locks |-> locks, mode |-> "none"]

\* MockEpochManager::get_block_header: the write lock of the cache for the lookup
HeaderLoad == <<Acquire("headers_cache", "write"), Release({"headers_cache"})>>

\* The write locks of get_epoch_and_valset, in the order of its let statements
TableLocks ==
    <<Acquire("hash_to_epoch", "write"),
      Acquire("hash_to_next_epoch_approvals_req", "write"),
      Acquire("hash_to_next_epoch", "write"),
      Acquire("hash_to_valset", "write"),
      Acquire("epoch_start", "write")>>

\* The five guards of get_epoch_and_valset go out of scope together
TableUnlocks ==
    <<Release({"hash_to_epoch", "hash_to_next_epoch_approvals_req",
               "hash_to_next_epoch", "hash_to_valset", "epoch_start"})>>

\* The ways of get_epoch_and_valset: the default hash returns at once, a missing
\* header returns after the lookup, and under the five locks the call ends before
\* the header of the last final block is looked up (it is the default hash, or an
\* unwrap panicked) or after it.
EpochQueryPaths == {"default", "missing", "no_final_lookup", "final_lookup"}

\* The lock steps of get_epoch_and_valset
EpochQueryLocks(path) ==
    IF path = "default" THEN <<>>
    ELSE IF path = "missing" THEN HeaderLoad
    ELSE IF path = "no_final_lookup" THEN HeaderLoad \o TableLocks \o TableUnlocks
    ELSE HeaderLoad \o TableLocks \o HeaderLoad \o TableUnlocks

\* The lock steps of get_valset_for_epoch: the read guard is a temporary
ValsetLookup == <<Acquire("hash_to_valset", "read"), Release({"hash_to_valset"})>>

\* The ways of get_epoch_block_approvers_ordered after its epoch query: the query
\* failed, or the flag read under the write lock is false, or it is true and the
\* valset of the next epoch is looked up.  The guard of the flag is a temporary of
\* the condition and is dropped before the body of the if.
ApproverPaths == {"query_failed", "no_approvals", "approvals"}

\* The epoch query for the default hash returns and the unwrap of the flag then
\* panics under the write lock; the query for a missing header fails.
ApproversPathsAfter(path) ==
    IF path = "default" THEN {"no_approvals"}
    ELSE IF path = "missing" THEN {"query_failed"}
    ELSE ApproverPaths

\* The lock steps of get_epoch_block_approvers_ordered
ApproversLocks(path, then) ==
    EpochQueryLocks(path)
        \o (IF then = "query_failed" THEN <<>>
            ELSE <<Acquire("hash_to_next_epoch_approvals_req", "write"),
                   Release({"hash_to_next_epoch_approvals_req"})>>
                     \o (IF then = "approvals" THEN ValsetLookup ELSE <<>>))

\* The listing with its two read locks taken the other way round
KnownEpochsLocksReversed ==
    <<Acquire("hash_to_next_epoch", "read"), Acquire("hash_to_epoch", "read"),
      Release({"hash_to_epoch", "hash_to_next_epoch"})>>

\* The lock steps of possible_epochs_of_height_around_tip: two read guards held
\* to the end of the call
KnownEpochsLocks ==
    <<Acquire("hash_to_epoch", "read"), Acquire("hash_to_next_epoch", "read"),
      Release({"hash_to_epoch", "hash_to_next_epoch"})>>

\* The calls a thread makes
ThreadCalls ==
    {[op |-> "get_epoch_and_valset", todo |-> EpochQueryLocks(path)] :
         path \in EpochQueryPaths}
    \cup UNION {{[op |-> "get_epoch_block_approvers_ordered",
                  todo |-> ApproversLocks(path, then)] :
                     then \in ApproversPathsAfter(path)} : path \in EpochQueryPaths}
    \cup {[op |-> "get_valset_for_epoch", todo |-> ValsetLookup],
          [op |-> "epoch_exists",
           todo |-> <<Acquire("hash_to_valset", "write"), Release({"hash_to_valset"})>>],
          [op |-> "possible_epochs_of_height_around_tip", todo |-> KnownEpochsLocks],
          [op |-> "get_block_header", todo |-> HeaderLoad]}

\* The threads that hold a guard of the lock
Holders(lock) ==
    {j \in ThreadIds : \E mode \in {"read", "write"} : <<lock, mode>> \in threads[j].held}

\* The thread is at a write() of the lock
WaitsToWrite(j, lock) ==
    /\ threads[j].todo # <<>>
    /\ Head(threads[j].todo) = Acquire(lock, "write")

\* RwLock::write returns when nobody holds a guard.  RwLock::read returns when no
\* writer holds one and no writer is parked: a writer that found the lock held
\* keeps new readers out.
CanAcquire(i, lock, mode) ==
    IF mode = "write" THEN Holders(lock) = {}
    ELSE /\ \A j \in ThreadIds : <<lock, "write">> \notin threads[j].held
         /\ \/ Holders(lock) = {}
            \/ \A j \in ThreadIds \ {i} : ~WaitsToWrite(j, lock)

\* A thread starts a call.
BeginThreadCall(i, call) ==
    /\ threads[i].op = "none"
    /\ threads' = [threads EXCEPT ![i] = [op |-> call.op, todo |-> call.todo,
                                          held |-> {}]]
    /\ UNCHANGED <<store, epoch_length, headers_cache, epochTables, eret, queries,
                   ledgerVars, slot_query>>

\* A thread is handed the guard it asks for.
AcquireStep(i) ==
    LET step == Head(threads[i].todo) IN
    /\ threads[i].todo # <<>>
    /\ step.do = "acquire"
    /\ \A lock \in step.locks : CanAcquire(i, lock, step.mode)
    /\ threads' = [threads EXCEPT
                      ![i].todo = Tail(@),
                      ![i].held = @ \cup {<<lock, step.mode>> : lock \in step.locks}]
    /\ UNCHANGED <<store, epoch_length, headers_cache, epochTables, eret, queries,
                   ledgerVars, slot_query>>

\* Guards of a thread go out of scope.
ReleaseStep(i) ==
    LET step == Head(threads[i].todo) IN
    /\ threads[i].todo # <<>>
    /\ step.do = "release"
    /\ threads' = [threads EXCEPT
                      ![i].todo = Tail(@),
                      ![i].held = {g \in @ : g[1] \notin step.locks}]
    /\ UNCHANGED <<store, epoch_length, headers_cache, epochTables, eret, queries,
                   ledgerVars, slot_query>>

\* The call of a thread returns, or ends its thread's call with a panic.
ReturnStep(i) ==
    /\ threads[i].op # "none"
    /\ threads[i].todo = <<>>
    /\ threads' = [threads EXCEPT ![i] = IdleThread]
    /\ UNCHANGED <<store, epoch_length, headers_cache, epochTables, eret, queries,
                   ledgerVars, slot_query>>

\* The steps of the call of a thread once it is made
ThreadStep(i) == AcquireStep(i) \/ ReleaseStep(i) \/ ReturnStep(i)

\* MockEpochManager::new_with_validators
InitEpochManager ==
    /\ store = EmptyMap
    /\ epoch_length \in EpochLengths
    /\ headers_cache = EmptyMap
    /\ hash_to_epoch = EmptyMap
    /\ hash_to_next_epoch_approvals_req = EmptyMap
    /\ hash_to_next_epoch = MapOf(DefaultHash, DefaultHash)
    /\ hash_to_valset = MapOf(DefaultHash, 0)
    /\ epoch_start = MapOf(DefaultHash, 0)
    /\ eret = NoEpochResult
    /\ queries = [i \in QueryIds |-> IdleQuery]
    /\ threads = [i \in ThreadIds |-> IdleThread]
    /\ slot_query = NoSlotQuery

\* ------------------------------------- MockEpochManager: epoch-keyed queries
\* The queries read the tables and change none; eret holds the inputs of the call
\* (arg is the epoch id) and, in value, what an Ok carries.

\* Heights, part ids of state-sync parts and accounts the queries are made with.
QueryHeights == 0 .. 2

QueryParts == 0 .. 3

EpochIds == {DefaultHash, UnknownHash} \cup Hashes

\* Every epoch id taken for one of the first validator set
ValsetOfAnyEpoch(epoch_id) ==
    <<(IF epoch_id \in DOMAIN hash_to_valset THEN hash_to_valset[epoch_id] ELSE 0)
          % Len(validators_by_valset)>>

\* MockEpochManager::get_valset_for_epoch: the index into validators_by_valset, or
\* nothing (EpochOutOfBounds) for an epoch id that hash_to_valset does not hold.
get_valset_for_epoch(epoch_id) ==
    IF epoch_id \in DOMAIN hash_to_valset
    THEN <<hash_to_valset[epoch_id] % Len(validators_by_valset)>>
    ELSE <<>>

\* MockEpochManager::get_block_producers; valset counts from 0
get_block_producers(valset) == validators_by_valset[valset + 1].block_producers

\* MockEpochManager::get_chunk_producers; valset and shard_index count from 0
get_chunk_producers(valset, shard_index) ==
    validators_by_valset[valset + 1].chunk_producers[shard_index + 1]

\* ShardLayout::v0(num_shards, 0).get_shard_index
get_shard_index(shard_id) == shard_id

num_total_parts == 12 + ((num_shards + 1) % 50)

num_data_parts ==
    IF num_total_parts <= 3 THEN 1 ELSE (num_total_parts - 1) \div 3

\* What every query result records of the call.
QueryCall(op, epoch_id) == [NoEpochResult EXCEPT !.op = op, !.arg = epoch_id]

\* Err(EpochError::EpochOutOfBounds(epoch_id))
EpochOutOfBounds(call, epoch_id) ==
    [call EXCEPT !.kind = "Err", !.cause = "EpochOutOfBounds", !.err = epoch_id]

\* Ok(value), valset being the index get_valset_for_epoch gave the call
OkValue(call, valset, value) ==
    [call EXCEPT !.kind = "Ok", !.valset = valset, !.value = <<value>>]

\* Index of the part owner without the two part counts
PartOwnerIndexPlain(part_id) == part_id

\* idx of get_part_owner
PartOwnerIndex(part_id) == part_id + num_data_parts + num_total_parts

\* MockEpochManager::get_part_owner
get_part_owner(epoch_id, part_id) ==
    LET call   == [QueryCall("get_part_owner", epoch_id) EXCEPT !.part_id = part_id]
        valset == get_valset_for_epoch(epoch_id)
    IN
    /\ UNCHANGED <<store, epoch_length, headers_cache, epochTables, elsewhere, queries>>
    /\ IF ~IsSome(valset)
       THEN eret' = EpochOutOfBounds(call, epoch_id)
       ELSE LET validators == get_block_producers(valset[1]) IN
            eret' = OkValue(call, valset[1],
                        validators[(PartOwnerIndex(part_id) % Len(validators)) + 1])

\* MockEpochManager::get_block_producer, through get_block_producer_info
get_block_producer(epoch_id, height) ==
    LET call   == [QueryCall("get_block_producer", epoch_id) EXCEPT !.height = height]
        valset == get_valset_for_epoch(epoch_id)
    IN
    /\ UNCHANGED <<store, epoch_length, headers_cache, epochTables, elsewhere, queries>>
    /\ IF ~IsSome(valset)
       THEN eret' = EpochOutOfBounds(call, epoch_id)
       ELSE LET validators == get_block_producers(valset[1]) IN
            eret' = OkValue(call, valset[1], validators[(height % Len(validators)) + 1])

\* index of a chunk producer without the shift by one
ChunkProducerIndexNoShift(shard_index, height_created, len) ==
    (shard_index + height_created) % len

\* index of get_chunk_producer_info
ChunkProducerIndex(shard_index, height_created, len) ==
    (shard_index + height_created + 1) % len

\* MockEpochManager::get_chunk_producer_info
get_chunk_producer_info(epoch_id, height_created, shard_id) ==
    LET call   == [QueryCall("get_chunk_producer_info", epoch_id) EXCEPT
                      !.height = height_created, !.shard_id = shard_id]
        valset == get_valset_for_epoch(epoch_id)
    IN
    /\ UNCHANGED <<store, epoch_length, headers_cache, epochTables, elsewhere, queries>>
    /\ IF ~IsSome(valset)
       THEN eret' = EpochOutOfBounds(call, epoch_id)
       ELSE LET shard_index     == get_shard_index(shard_id)
                chunk_producers == get_chunk_producers(valset[1], shard_index)
                index == ChunkProducerIndex(shard_index, height_created,
                                            Len(chunk_producers))
            IN  eret' = OkValue(call, valset[1], ValidatorStake(chunk_producers[index + 1]))

\* The lookup that searches the block producers only
IsValidatorOfBlockProducers(validators, account_id) ==
    \E i \in 1 .. Len(validators.block_producers) :
        validators.block_producers[i] = account_id

\* The two loops of get_validator_by_account_id: the account is among the block
\* producers or among the chunk producers of some shard.
IsValidatorOf(validators, account_id) ==
    \/ \E i \in 1 .. Len(validators.block_producers) :
           validators.block_producers[i] = account_id
    \/ \E s \in 1 .. Len(validators.chunk_producers) :
           \E i \in 1 .. Len(validators.chunk_producers[s]) :
               validators.chunk_producers[s][i] = account_id

\* MockEpochManager::get_validator_by_account_id
get_validator_by_account_id(epoch_id, account_id) ==
    LET call   == [QueryCall("get_validator_by_account_id", epoch_id) EXCEPT
                      !.account_id = account_id]
        valset == get_valset_for_epoch(epoch_id)
    IN
    /\ UNCHANGED <<store, epoch_length, headers_cache, epochTables, elsewhere, queries>>
    /\ IF ~IsSome(valset)
       THEN eret' = EpochOutOfBounds(call, epoch_id)
       ELSE IF IsValidatorOf(validators_by_valset[valset[1] + 1], account_id)
       THEN eret' = OkValue(call, valset[1], ValidatorStake(account_id))
       ELSE eret' = [call EXCEPT !.kind = "Err", !.cause = "NotAValidator",
                                 !.err = epoch_id, !.err_account = account_id]

\* MockEpochManager::cares_about_shard_in_epoch: the valset of the epoch is
\* unwrapped, so an epoch id without one aborts the call.
cares_about_shard_in_epoch(epoch_id, account_id, shard_id) ==
    LET call   == [QueryCall("cares_about_shard_in_epoch", epoch_id) EXCEPT
                      !.account_id = account_id, !.shard_id = shard_id]
        valset == get_valset_for_epoch(epoch_id)
    IN
    /\ UNCHANGED <<store, epoch_length, headers_cache, epochTables, elsewhere, queries>>
    /\ IF ~IsSome(valset)
       THEN eret' = [call EXCEPT !.kind = "Panic", !.cause = "EpochOutOfBounds",
                                 !.err = epoch_id]
       ELSE LET chunk_producers ==
                    get_chunk_producers(valset[1], get_shard_index(shard_id))
            IN  eret' = OkValue(call, valset[1],
                            \E i \in 1 .. Len(chunk_producers) :
                                chunk_producers[i] = account_id)

\* Ordering of two valset indices, as u64::cmp gives it
Cmp(index1, index2) ==
    IF index1 < index2 THEN "Less"
    ELSE IF index1 = index2 THEN "Equal"
    ELSE "Greater"

\* MockEpochManager::compare_epoch_id: equal ids are Equal without a lookup; else
\* the two indices get_valset_for_epoch gives are compared, and a lookup that
\* fails for either id is the error EpochOutOfBounds of the first id.
compare_epoch_id(epoch_id, other_epoch_id) ==
    LET call   == [QueryCall("compare_epoch_id", epoch_id) EXCEPT
                      !.other = other_epoch_id]
        index1 == get_valset_for_epoch(epoch_id)
        index2 == get_valset_for_epoch(other_epoch_id)
    IN
    /\ UNCHANGED <<store, epoch_length, headers_cache, epochTables, elsewhere, queries>>
    /\ IF epoch_id = other_epoch_id
       THEN eret' = [call EXCEPT !.kind = "Ok", !.value = <<"Equal">>]
       ELSE IF IsSome(index1) /\ IsSome(index2)
       THEN eret' = OkValue(call, index1[1], Cmp(index1[1], index2[1]))
       ELSE eret' = EpochOutOfBounds(call, epoch_id)

\* The caller takes the result of a call that returned.
TakeEpochResult ==
    /\ eret.kind \in {"Ok", "Err"}
    /\ eret' = NoEpochResult
    /\ UNCHANGED <<store, epoch_length, headers_cache, epochTables, elsewhere, queries>>

\* ----------------- MockEpochManager: the shards of the neighbouring epochs
\* cares_about_shard_next_epoch_from_prev_block and
\* cared_about_shard_prev_epoch_from_prev_block unwrap the epoch query for
\* parent_hash and look the account up among the chunk producers of the slot
\* after or before the one the query returned.  The managers asked are built with
\* schedules of every length up to MaxSchedule; the slot the query returned is
\* below the length of the schedule.
ScheduleLengths == 1 .. MaxSchedule

\* The block producers of the validator set of a slot: two accounts, each set
\* beginning with the second account of the set before it.
BlockProducersOfSlot(slot) ==
    <<AccountOrder[(slot % Len(AccountOrder)) + 1],
      AccountOrder[((slot + 1) % Len(AccountOrder)) + 1]>>

\* validators_by_valset of a manager built with len validator sets
ScheduleOfLength(len) ==
    [i \in 1 .. len |->
        [block_producers |-> BlockProducersOfSlot(i - 1),
         chunk_producers |-> ChunkProducersOf(BlockProducersOfSlot(i - 1))]]

\* 2^64 modulo len, the modulus of usize on the 64-bit targets, as the fourth
\* power of 2^16 modulo len
WordModulo(len) == (((65536 % len) ^ 4) % len)

\* (epoch_valset.1.wrapping_sub(1)) % len: below slot 0 the subtraction gives
\* 2^64 - 1.
PrevEpochValset(valset, len) ==
    IF valset >= 1 THEN (valset - 1) % len
    ELSE (WordModulo(len) + len - 1) % len

\* (epoch_valset.1 + 1) % len
NextEpochValset(valset, len) == (valset + 1) % len

\* The loop over the chunk producers of a slot of the schedule
IsChunkProducerAt(schedule, slot, account_id, shard_id) ==
    LET chunk_producers ==
            schedule[slot + 1].chunk_producers[get_shard_index(shard_id) + 1]
    IN  \E i \in 1 .. Len(chunk_producers) : chunk_producers[i] = account_id

\* What every such query records of the call.
SlotCall(op, len, valset, account_id, shard_id) ==
    [NoSlotQuery EXCEPT !.op = op, !.len = len, !.valset = valset,
                        !.account_id = account_id, !.shard_id = shard_id]

\* MockEpochManager::cares_about_shard_next_epoch_from_prev_block on a manager
\* with len validator sets whose epoch query returned valset
cares_about_shard_next_epoch_from_prev_block(len, valset, account_id, shard_id) ==
    LET slot == NextEpochValset(valset, len) IN
    /\ slot_query.kind = "none"
    /\ slot_query' =
           [SlotCall("cares_about_shard_next_epoch_from_prev_block", len, valset,
                     account_id, shard_id) EXCEPT
               !.kind = "Ok", !.consulted = slot,
               !.value = IsChunkProducerAt(ScheduleOfLength(len), slot, account_id,
                                           shard_id)]
    /\ UNCHANGED <<store, epoch_length, headers_cache, epochTables, eret, queries,
                   ledgerVars, threads>>

\* MockEpochManager::cared_about_shard_prev_epoch_from_prev_block on a manager
\* with len validator sets whose epoch query returned valset
cared_about_shard_prev_epoch_from_prev_block(len, valset, account_id, shard_id) ==
    LET slot == PrevEpochValset(valset, len) IN
    /\ slot_query.kind = "none"
    /\ slot_query' =
           [SlotCall("cared_about_shard_prev_epoch_from_prev_block", len, valset,
                     account_id, shard_id) EXCEPT
               !.kind = "Ok", !.consulted = slot,
               !.value = IsChunkProducerAt(ScheduleOfLength(len), slot, account_id,
                                           shard_id)]
    /\ UNCHANGED <<store, epoch_length, headers_cache, epochTables, eret, queries,
                   ledgerVars, threads>>

\* The caller takes the answer.
TakeSlotResult ==
    /\ slot_query.kind = "Ok"
    /\ slot_query' = NoSlotQuery
    /\ UNCHANGED <<store, epoch_length, headers_cache, epochTables, eret, queries,
                   ledgerVars, threads>>

\* ---------------------------------------------------- KeyValueRuntime
\* A state root is a tuple: Trie::EMPTY_ROOT, the all-zero hash, is the empty tuple
\* and hash(data) is the one-element tuple of the bytes hashed, so that hash is
\* injective and never the zero hash.  The hash of a receipt or of a transaction
\* is the one-element tuple of the receipt or transaction.
EMPTY_ROOT == <<>>

hash(data) == <<data>>

\* KVState with nothing in it
EmptyKVState == [amounts |-> EmptyMap, receipt_nonces |-> {}, tx_nonces |-> {}]

\* initial_amounts of new_with_no_gc: 1000 + 100 * i for the i-th block producer of
\* the flattened schedule, a later insert replacing an earlier one.
RECURSIVE InitialAmounts(_, _, _)
InitialAmounts(amounts, sets, i) ==
    IF sets = <<>> THEN amounts
    ELSE IF Head(sets) = <<>> THEN InitialAmounts(amounts, Tail(sets), i)
    ELSE InitialAmounts(Put(amounts, Head(Head(sets)), 1000 + 100 * i),
                        <<Tail(Head(sets))>> \o Tail(sets), i + 1)

\* kv_state of new_with_no_gc
GenesisKVState ==
    [amounts |-> InitialAmounts(EmptyMap,
                     [i \in 1 .. Len(validators_by_valset) |->
                          validators_by_valset[i].block_producers], 0),
     receipt_nonces |-> {},
     tx_nonces |-> {}]

\* create_receipt_nonce: the hash of (from, to, amount, nonce), the tuple itself.
create_receipt_nonce(from, to, amount, nonce) == <<from, to, amount, nonce>>

\* The order of the bytes of two receipt ids.
ReceiptIdRank(id) ==
    ((AccountRank(id[1]) * 8 + AccountRank(id[2])) * 16 + id[4]) * 8192 + id[3]

\* Ord of AccountNonce: by account id, then by nonce.
AccountNonceRank(an) == AccountRank(an[1]) * 16 + an[2]

\* The elements of a set in ascending order of rank.
RECURSIVE SortedSeq(_, _)
SortedSeq(S, rank) ==
    IF S = {} THEN <<>>
    ELSE LET m == CHOOSE x \in S : \A y \in S : rank[x] <= rank[y]
         IN  <<m>> \o SortedSeq(S \ {m}, rank)

\* borsh::to_vec(&KVState): the three collections in field order, each with its
\* entries in ascending key order.
Serialize(kv) ==
    << [i \in 1 .. Cardinality(DOMAIN kv.amounts) |->
           LET a == SortedSeq(DOMAIN kv.amounts,
                              [x \in DOMAIN kv.amounts |-> AccountRank(x)])[i]
           IN  <<a, kv.amounts[a]>>],
       SortedSeq(kv.receipt_nonces, [x \in kv.receipt_nonces |-> ReceiptIdRank(x)]),
       SortedSeq(kv.tx_nonces, [x \in kv.tx_nonces |-> AccountNonceRank(x)]) >>

\* Bytes that are no serialized KVState.
Garbage == <<>>

\* A decoding that keeps the balances only
DeserializeAmountsOnly(data) ==
    IF Len(data) # 3 THEN <<>>
    ELSE << [amounts |-> [a \in {data[1][i][1] : i \in 1 .. Len(data[1])} |->
                             LET i == CHOOSE j \in 1 .. Len(data[1]) : data[1][j][1] = a
                             IN  data[1][i][2]],
             receipt_nonces |-> {},
             tx_nonces |-> {}] >>

\* KVState::try_from_slice: the snapshot, or nothing when the bytes are not one.
Deserialize(data) ==
    IF Len(data) # 3 THEN <<>>
    ELSE << [amounts |-> [a \in {data[1][i][1] : i \in 1 .. Len(data[1])} |->
                             LET i == CHOOSE j \in 1 .. Len(data[1]) : data[1][j][1] = a
                             IN  data[1][i][2]],
             receipt_nonces |-> {data[2][i] : i \in 1 .. Len(data[2])},
             tx_nonces |-> {data[3][i] : i \in 1 .. Len(data[3])}] >>

RECURSIVE SumLen(_, _)
SumLen(entries, fixed) ==
    IF entries = <<>> THEN 0
    ELSE 4 + Len(Head(entries)[1]) + fixed + SumLen(Tail(entries), fixed)

\* data.len(): a u32 count per collection, a u32 length and the bytes per account
\* id, 16 bytes per balance, 32 per receipt id, 8 per nonce.
DataLen(data) ==
    IF Len(data) # 3 THEN 0
    ELSE 4 + SumLen(data[1], 16) + 4 + 32 * Len(data[2]) + 4 + SumLen(data[3], 8)

\* ------------------------------------------------------ chunk contents
Transfer(deposit) == [type |-> "Transfer", deposit |-> deposit]

\* An action that is no transfer
CreateAccount == [type |-> "CreateAccount", deposit |-> 0]

SignedTransaction(signer_id, receiver_id, nonce, actions) ==
    [signer_id |-> signer_id, receiver_id |-> receiver_id, nonce |-> nonce,
     actions |-> actions]

\* The gas prices of the blocks chunks are applied in (block.gas_price).
GasPrices == {100, 200}

\* The gas price of the blocks whose chunks emitted the receipts of the pool.
PoolGasPrice == 100

\* An action receipt of one transfer, as apply_chunk builds it; the receipts of the
\* pool are receipts of this form emitted under PoolGasPrice.
TransferReceipt(from, to, amount, nonce) ==
    [predecessor_id |-> from, receiver_id |-> to,
     receipt_id |-> create_receipt_nonce(from, to, amount, nonce),
     receipt |-> "Action", gas_price |-> PoolGasPrice,
     actions |-> <<Transfer(amount)>>]

\* The receipt apply_chunk emits for a transfer to another shard: gas_price is
\* block.gas_price.
EmittedReceipt(from, to, amount, nonce, gas_price) ==
    [TransferReceipt(from, to, amount, nonce) EXCEPT !.gas_price = gas_price]

\* The transactions chunks are made of.
TransactionPool ==
    { SignedTransaction("alice", "bob", 1, <<Transfer(100)>>),
      SignedTransaction("alice", "carol", 2, <<Transfer(50)>>),
      SignedTransaction("alice", "alice", 3, <<Transfer(100)>>),
      SignedTransaction("dave", "bob", 1, <<Transfer(0)>>),
      SignedTransaction("bob", "dave", 4, <<Transfer(5000)>>),
      SignedTransaction("carol", "alice", 5, <<Transfer(10)>>),
      SignedTransaction("alice", "carol", 0, <<Transfer(10)>>),
      SignedTransaction("alice", "bob", 6, <<>>),
      SignedTransaction("alice", "bob", 6, <<CreateAccount>>),
      SignedTransaction("dave", "alice", 8, <<Transfer(25)>>),
      SignedTransaction("bob", "carol", 7, <<Transfer(0)>>) }

\* The receipts chunks are made of.
ReceiptPool ==
    { TransferReceipt("carol", "alice", 10, 5),
      TransferReceipt("alice", "carol", 50, 2),
      TransferReceipt("bob", "alice", 30, 7),
      TransferReceipt("dave", "bob", 20, 8),
      TransferReceipt("carol", "dave", 40, 10),
      [TransferReceipt("carol", "bob", 0, 9) EXCEPT !.receipt = "PromiseYield",
                                                    !.actions = <<CreateAccount>>],
      [TransferReceipt("carol", "dave", 0, 9) EXCEPT !.receipt = "Data",
                                                     !.actions = <<>>] }

SeqsUpTo(S, n) == UNION {[1 .. k -> S] : k \in 0 .. n}

\* The (receipts, transactions) of a chunk.
Chunks ==
    {c \in SeqsUpTo(ReceiptPool, MaxChunk) \X SeqsUpTo(TransactionPool, MaxChunk) :
        Len(c[1]) + Len(c[2]) <= MaxChunk}

\* ------------------------------------------------------- apply_chunk
NoPanic == "none"

\* A duplicate receipt id passing for new
ReceiptNeverApplied(kv, receipt) == FALSE

\* state.receipt_nonces.contains(receipt.receipt_id())
ReceiptAlreadyApplied(kv, receipt) == receipt.receipt_id \in kv.receipt_nonces

\* One pass of the loop over the receipts.
ApplyReceipt(acc, receipt, shard_id) ==
    IF acc.cause # NoPanic THEN acc
    ELSE IF receipt.receipt \notin {"Action", "PromiseYield"}
    THEN [acc EXCEPT !.cause = "only action receipts can be applied"]
    ELSE IF account_id_to_shard_id(receipt.receiver_id) # shard_id
    THEN [acc EXCEPT !.cause = "receipt receiver shard"]
    ELSE IF ReceiptAlreadyApplied(acc.state, receipt)
    THEN [acc EXCEPT !.cause = "receipts should never be applied twice"]
    ELSE IF receipt.actions = <<>>
    THEN [acc EXCEPT !.cause = "actions[0]"]
    ELSE [acc EXCEPT
            !.state.receipt_nonces = @ \cup {receipt.receipt_id},
            !.balance_transfers =
                IF receipt.actions[1].type = "Transfer"
                THEN Append(@, [hash |-> hash(receipt),
                                from |-> receipt.predecessor_id,
                                to |-> receipt.receiver_id,
                                amount |-> receipt.actions[1].deposit,
                                nonce |-> 0,
                                origin |-> "receipt",
                                seen |-> FALSE])
                ELSE @]

RECURSIVE ApplyReceipts(_, _, _)
ApplyReceipts(acc, receipts, shard_id) ==
    IF receipts = <<>> THEN acc
    ELSE ApplyReceipts(ApplyReceipt(acc, Head(receipts), shard_id), Tail(receipts), shard_id)

\* A replayed transaction queued with its deposit
ReplayedAmountDeposit(deposit) == deposit

\* The amount a transaction with a seen (receiver, nonce) is queued with.
ReplayedAmount(deposit) == 0

\* A nonce that is never recorded
RecordNonceNever(tx_nonces, an) == tx_nonces

\* state.tx_nonces.insert(AccountNonce(receiver_id, nonce))
RecordNonce(tx_nonces, an) == tx_nonces \cup {an}

\* One pass of the loop over the transactions.
ApplyTransaction(acc, transaction, shard_id) ==
    IF acc.cause # NoPanic THEN acc
    ELSE IF account_id_to_shard_id(transaction.signer_id) # shard_id
    THEN [acc EXCEPT !.cause = "transaction signer shard"]
    ELSE IF transaction.actions = <<>> THEN acc
    ELSE IF transaction.actions[1].type # "Transfer"
    THEN [acc EXCEPT !.cause = "unreachable"]
    ELSE LET an   == <<transaction.receiver_id, transaction.nonce>>
             seen == an \in acc.state.tx_nonces
         IN  [acc EXCEPT
                !.state.tx_nonces = RecordNonce(@, an),
                !.balance_transfers =
                    Append(@, [hash |-> hash(transaction),
                               from |-> transaction.signer_id,
                               to |-> transaction.receiver_id,
                               amount |-> IF seen
                                          THEN ReplayedAmount(transaction.actions[1].deposit)
                                          ELSE transaction.actions[1].deposit,
                               nonce |-> transaction.nonce,
                               origin |-> "transaction",
                               seen |-> seen])]

RECURSIVE ApplyTransactions(_, _, _)
ApplyTransactions(acc, transactions, shard_id) ==
    IF transactions = <<>> THEN acc
    ELSE ApplyTransactions(ApplyTransaction(acc, Head(transactions), shard_id),
                           Tail(transactions), shard_id)

\* good_to_go without the comparison of the balance with the amount
GoodToGoUnchecked(amounts, t, shard_id) ==
    \/ account_id_to_shard_id(t.from) # shard_id
    \/ t.from \in DOMAIN amounts

\* good_to_go of a balance transfer
GoodToGo(amounts, t, shard_id) ==
    \/ account_id_to_shard_id(t.from) # shard_id
    \/ t.from \in DOMAIN amounts /\ amounts[t.from] >= t.amount

\* A debit that takes nothing
DebitNothing(amounts, t, shard_id) == amounts

\* state.amounts after the debit of a balance transfer that is good to go
Debit(amounts, t, shard_id) ==
    IF account_id_to_shard_id(t.from) # shard_id THEN amounts
    ELSE Put(amounts, t.from, amounts[t.from] - t.amount)

\* A credit that adds nothing
CreditNothing(amounts, to, amount) ==
    Put(amounts, to, IF to \in DOMAIN amounts THEN amounts[to] ELSE 0)

\* state.amounts.insert(to, state.amounts.get(&to).unwrap_or(&0) + amount)
Credit(amounts, to, amount) ==
    Put(amounts, to, (IF to \in DOMAIN amounts THEN amounts[to] ELSE 0) + amount)

\* An outcome that names no receipt
OutcomeWithoutReceipts(t, receipt_ids) ==
    [id |-> t.hash, status |-> "SuccessValue", receipt_ids |-> <<>>,
     executor_id |-> t.to]

\* The ExecutionOutcomeWithId of a balance transfer
Outcome(t, receipt_ids) ==
    [id |-> t.hash, status |-> "SuccessValue", receipt_ids |-> receipt_ids,
     executor_id |-> t.to]

\* One pass of the loop over balance_transfers.  The trace keeps, per transfer, the
\* balances before and after it and what it pushed.
ApplyTransfer(run, t, shard_id) ==
    IF run.cause # NoPanic THEN run
    ELSE IF ~GoodToGo(run.amounts, t, shard_id)
    THEN [run EXCEPT !.trace = Append(@, [t |-> t, good_to_go |-> FALSE,
                                          before |-> run.amounts, after |-> run.amounts,
                                          outcome |-> <<>>, receipt |-> <<>>])]
    ELSE LET debited == Debit(run.amounts, t, shard_id) IN
         IF account_id_to_shard_id(t.to) = shard_id
         THEN LET credited == Credit(debited, t.to, t.amount) IN
              [run EXCEPT !.amounts = credited,
                          !.outcomes = Append(@, Outcome(t, <<>>)),
                          !.trace = Append(@, [t |-> t, good_to_go |-> TRUE,
                                               before |-> run.amounts, after |-> credited,
                                               outcome |-> <<Outcome(t, <<>>)>>,
                                               receipt |-> <<>>])]
         ELSE IF t.nonce = 0
         THEN [run EXCEPT !.cause = "assert_ne!(nonce, 0)"]
         ELSE LET receipt == EmittedReceipt(t.from, t.to, t.amount, t.nonce,
                                            run.gas_price) IN
              [run EXCEPT !.amounts = debited,
                          !.outcomes = Append(@, Outcome(t, <<hash(receipt)>>)),
                          !.outgoing_receipts = Append(@, receipt),
                          !.trace = Append(@, [t |-> t, good_to_go |-> TRUE,
                                               before |-> run.amounts, after |-> debited,
                                               outcome |-> <<Outcome(t, <<hash(receipt)>>)>>,
                                               receipt |-> <<receipt>>])]

RECURSIVE ApplyTransfers(_, _, _)
ApplyTransfers(run, balance_transfers, shard_id) ==
    IF balance_transfers = <<>> THEN run
    ELSE ApplyTransfers(ApplyTransfer(run, Head(balance_transfers), shard_id),
                        Tail(balance_transfers), shard_id)

NoLedgerResult ==
    [op |-> "none", kind |-> "none", cause |-> NoPanic, state_root |-> EMPTY_ROOT,
     shard_id |-> 0, receipts |-> <<>>, transactions |-> <<>>, prev |-> EmptyKVState,
     new_root |-> EMPTY_ROOT, outcomes |-> <<>>, outgoing_receipts |-> <<>>,
     trace |-> <<>>, part_id |-> 0, data |-> Garbage, memory_usage |-> 0]

\* The two loops the other way round: the transactions, then the receipts
QueueTransactionsFirst(prev, shard_id, receipts, transactions) ==
    ApplyReceipts(
        ApplyTransactions([state |-> prev, balance_transfers |-> <<>>,
                           cause |-> NoPanic], transactions, shard_id),
        receipts, shard_id)

\* The loop over the receipts and then the loop over the transactions: the
\* snapshot with the ids and nonces recorded, and balance_transfers.
QueueTransfers(prev, shard_id, receipts, transactions) ==
    ApplyTransactions(
        ApplyReceipts([state |-> prev, balance_transfers |-> <<>>,
                       cause |-> NoPanic], receipts, shard_id),
        transactions, shard_id)

\* What apply_chunk computes from the snapshot it cloned: how it ends, the snapshot
\* it comes to, and what it returns.
ChunkComputation(prev, shard_id, receipts, transactions, gas_price) ==
    LET queued == QueueTransfers(prev, shard_id, receipts, transactions)
        run == ApplyTransfers([amounts |-> queued.state.amounts, outcomes |-> <<>>,
                               outgoing_receipts |-> <<>>, trace |-> <<>>,
                               cause |-> queued.cause, gas_price |-> gas_price],
                              queued.balance_transfers, shard_id)
    IN  [cause |-> run.cause,
         state |-> [queued.state EXCEPT !.amounts = run.amounts],
         outcomes |-> run.outcomes,
         outgoing_receipts |-> run.outgoing_receipts,
         trace |-> run.trace]

\* Every entry of the table set to the new snapshot
InsertOverAll(table, key, value) == [r \in DOMAIN table \cup {key} |-> value]

\* The whole table replaced by the one entry
InsertDroppingOthers(table, key, value) == MapOf(key, value)

\* self.state.write().insert(state_root, state)
InsertState(table, state_root, kv) == Put(table, state_root, kv)

\* A state root that hashes only the balances
StateRootOfAmounts(data) == hash(<<data[1], <<>>, <<>>>>)

\* A root that depends on how many roots the table holds
StateRootOfTable(data) == hash(<<data, Cardinality(DOMAIN state)>>)

\* state_root of apply_chunk
StateRootOf(data) == hash(data)

\* The ledger is called when the caller holds no result of an earlier call (a call
\* that panicked has aborted the caller) and the table has room.
LedgerServes == kret.kind = "none" /\ Cardinality(DOMAIN state) < MaxRoots

\* A panic that leaves the snapshot it was working on under the root it read
PanicsAfterInsert(call, cause, read, c) ==
    /\ kret' = [call EXCEPT !.kind = "Panic", !.cause = cause, !.prev = read]
    /\ state' = Put(state, call.state_root, c.state)
    /\ UNCHANGED state_size

\* apply_chunk panics: every panic comes before the inserts of lines 1178-1179, so
\* the tables are as they were.  read is the snapshot cloned, c the computation.
Panics(call, cause, read, c) ==
    /\ kret' = [call EXCEPT !.kind = "Panic", !.cause = cause, !.prev = read]
    /\ UNCHANGED <<state, state_size>>

\* KeyValueRuntime::apply_chunk
apply_chunk(prev_state_root, shard_id, receipts, transactions, gas_price) ==
    LET call == [NoLedgerResult EXCEPT !.op = "apply_chunk",
                                       !.state_root = prev_state_root,
                                       !.shard_id = shard_id,
                                       !.receipts = receipts,
                                       !.transactions = transactions]
    IN
    /\ LedgerServes
    /\ UNCHANGED <<epochVars, calls>>
    /\ IF prev_state_root \notin DOMAIN state
       THEN /\ kret' = [call EXCEPT !.kind = "Panic", !.cause = "state_root"]
            /\ UNCHANGED <<state, state_size>>
       ELSE LET c == ChunkComputation(state[prev_state_root], shard_id, receipts,
                                      transactions, gas_price)
                data == Serialize(c.state)
                state_root == StateRootOf(data)
            IN  IF c.cause # NoPanic
                THEN Panics(call, c.cause, state[prev_state_root], c)
                ELSE /\ state' = InsertState(state, state_root, c.state)
                     /\ state_size' = Put(state_size, state_root, DataLen(data))
                     /\ kret' = [call EXCEPT !.kind = "Ok",
                                             !.prev = state[prev_state_root],
                                             !.new_root = state_root,
                                             !.outcomes = c.outcomes,
                                             !.outgoing_receipts = c.outgoing_receipts,
                                             !.trace = c.trace]

\* The part indices state parts are asked for and applied with.
PartIds == {0, 1, 2}

\* Every part index taken for one that carries the snapshot
CarriesDataAlways(part_id) == TRUE

\* part_id.idx == 0: the one part that carries the snapshot
CarriesData(part_id) == part_id = 0

\* KeyValueRuntime::obtain_state_part
obtain_state_part(state_root, part_id) ==
    LET call == [NoLedgerResult EXCEPT !.op = "obtain_state_part",
                                       !.state_root = state_root,
                                       !.part_id = part_id]
    IN
    /\ kret.kind = "none"
    /\ UNCHANGED <<epochVars, state, state_size, calls>>
    /\ IF ~CarriesData(part_id)
       THEN kret' = [call EXCEPT !.kind = "Ok", !.data = <<>>]
       ELSE IF state_root \notin DOMAIN state
       THEN kret' = [call EXCEPT !.kind = "Panic", !.cause = "state_root"]
       ELSE kret' = [call EXCEPT !.kind = "Ok", !.data = Serialize(state[state_root])]

\* KeyValueRuntime::apply_state_part
apply_state_part(state_root, part_id, data) ==
    LET call == [NoLedgerResult EXCEPT !.op = "apply_state_part",
                                       !.state_root = state_root,
                                       !.part_id = part_id,
                                       !.data = data]
    IN
    /\ LedgerServes
    /\ UNCHANGED <<epochVars, calls>>
    /\ IF ~CarriesData(part_id)
       THEN /\ kret' = [call EXCEPT !.kind = "Ok"]
            /\ UNCHANGED <<state, state_size>>
       ELSE IF ~IsSome(Deserialize(data))
       THEN /\ kret' = [call EXCEPT !.kind = "Panic", !.cause = "try_from_slice"]
            /\ UNCHANGED <<state, state_size>>
       ELSE LET kv == Deserialize(data)[1] IN
            /\ state' = Put(state, state_root, kv)
            /\ state_size' = Put(state_size, state_root, DataLen(Serialize(kv)))
            /\ kret' = [call EXCEPT !.kind = "Ok"]

\* The caller takes the Ok(..) a call returned and goes on.
TakeResult ==
    /\ kret.kind = "Ok"
    /\ kret' = NoLedgerResult
    /\ UNCHANGED <<epochVars, state, state_size, calls>>

\* ------------------------------------- apply_chunk calls side by side
\* The steps of an apply_chunk call that another call can come between: the clone
\* of the snapshot under the read lock (with all that is computed from the clone),
\* the insert into state under its write lock, the insert into state_size under
\* its write lock.
CallIds == {1, 2}

IdleCall ==
    [pc |-> "idle", state_root |-> EMPTY_ROOT, shard_id |-> 0, receipts |-> <<>>,
     transactions |-> <<>>, at_start |-> EmptyKVState, read |-> EmptyKVState,
     cause |-> NoPanic, new_state |-> EmptyKVState, new_root |-> EMPTY_ROOT,
     outcomes |-> <<>>, outgoing_receipts |-> <<>>, overlap |-> FALSE,
     roots_read |-> {}]

\* A clone of the entry with the most applied ids, whatever the root asked for
CloneFullest(table, state_root) ==
    table[CHOOSE r \in DOMAIN table :
              \A q \in DOMAIN table :
                  Cardinality(table[q].receipt_nonces) + Cardinality(table[q].tx_nonces)
                      <= Cardinality(table[r].receipt_nonces)
                             + Cardinality(table[r].tx_nonces)]

\* self.state.read().get(&storage_config.state_root).cloned().unwrap(), the root
\* being there
CloneSnapshot(table, state_root) == table[state_root]

AllIdle == \A i \in CallIds : calls[i].pc = "idle"

CallFinished(i) == calls[i].pc \in {"returned", "panicked"}

\* Call i can start: it is not running, no caller holds a result of the ledger,
\* and the table has room.
CallServed(i) ==
    /\ calls[i].pc = "idle"
    /\ kret.kind = "none"
    /\ Cardinality(DOMAIN state) < MaxRoots

\* The chunks given to the calls that run side by side.
SmallChunks == {c \in Chunks : Len(c[1]) + Len(c[2]) <= 1}

\* Call i starts: it clones the snapshot under prev_state_root and computes from
\* the clone.  A call that starts while the other is running has the other's
\* input; at_start is the snapshot that was under prev_state_root when the first
\* of the two started.
BeginCall(i, prev_state_root, shard_id, receipts, transactions, gas_price) ==
    LET others == {j \in CallIds \ {i} : calls[j].pc # "idle"}
        call == [IdleCall EXCEPT !.state_root = prev_state_root,
                                 !.shard_id = shard_id,
                                 !.receipts = receipts,
                                 !.transactions = transactions,
                                 !.roots_read = DOMAIN state,
                                 !.overlap = \E j \in others :
                                                 calls[j].pc \in {"computed", "inserted"}]
    IN
    /\ CallServed(i)
    /\ \A j \in others :
           /\ calls[j].state_root = prev_state_root
           /\ calls[j].shard_id = shard_id
           /\ calls[j].receipts = receipts
           /\ calls[j].transactions = transactions
    /\ UNCHANGED <<epochVars, state, state_size, kret>>
    /\ IF prev_state_root \notin DOMAIN state
       THEN calls' = [calls EXCEPT ![i] =
                         [call EXCEPT !.pc = "panicked", !.cause = "state_root"]]
       ELSE LET read == CloneSnapshot(state, prev_state_root)
                at_start == IF others = {} THEN read
                            ELSE calls[CHOOSE j \in others : TRUE].at_start
                c == ChunkComputation(read, shard_id, receipts, transactions, gas_price)
            IN  calls' = [calls EXCEPT ![i] =
                    IF c.cause # NoPanic
                    THEN [call EXCEPT !.pc = "panicked", !.cause = c.cause,
                                      !.read = read, !.at_start = at_start]
                    ELSE [call EXCEPT !.pc = "computed",
                                      !.read = read, !.at_start = at_start,
                                      !.new_state = c.state,
                                      !.new_root = StateRootOf(Serialize(c.state)),
                                      !.outcomes = c.outcomes,
                                      !.outgoing_receipts = c.outgoing_receipts]]

\* Call i does self.state.write().insert(state_root, state).
InsertStateStep(i) ==
    /\ calls[i].pc = "computed"
    /\ state' = InsertState(state, calls[i].new_root, calls[i].new_state)
    /\ calls' = [calls EXCEPT ![i].pc = "inserted"]
    /\ UNCHANGED <<epochVars, state_size, kret>>

\* Call i does self.state_size.write().insert(state_root, state_size) and returns.
InsertSizeStep(i) ==
    /\ calls[i].pc = "inserted"
    /\ state_size' = Put(state_size, calls[i].new_root,
                         DataLen(Serialize(calls[i].new_state)))
    /\ calls' = [calls EXCEPT ![i].pc = "returned"]
    /\ UNCHANGED <<epochVars, state, kret>>

\* The callers take the results of two calls that returned.
TakeResults ==
    /\ \A i \in CallIds : calls[i].pc = "returned"
    /\ calls' = [i \in CallIds |-> IdleCall]
    /\ UNCHANGED <<epochVars, state, state_size, kret>>

\* KeyValueRuntime::new_with_no_gc
InitKeyValueRuntime ==
    /\ state = MapOf(EMPTY_ROOT, GenesisKVState)
    /\ state_size = MapOf(EMPTY_ROOT, DataLen(Serialize(GenesisKVState)))
    /\ kret = NoLedgerResult
    /\ calls = [i \in CallIds |-> IdleCall]

\* A state root the table never holds: that of the snapshot with nothing in it.
UnknownRoot == hash(Serialize(EmptyKVState))

\* The roots get_state_root_node is asked for: those of the table, those the calls
\* that run come to, and one no call comes to.
RootsAskedFor ==
    DOMAIN state \cup {UnknownRoot}
        \cup {calls[i].new_root :
                  i \in {j \in CallIds : calls[j].pc \in {"computed", "inserted"}}}

\* KeyValueRuntime::get_state_root_node: the snapshot is read under the lock of
\* state, then the size under the lock of state_size; each unwrap panics on a root
\* its table does not hold.
get_state_root_node(state_root) ==
    LET call == [NoLedgerResult EXCEPT !.op = "get_state_root_node",
                                       !.state_root = state_root]
    IN
    /\ kret.kind = "none"
    /\ UNCHANGED <<epochVars, state, state_size, calls>>
    /\ IF state_root \notin DOMAIN state
       THEN kret' = [call EXCEPT !.kind = "Panic", !.cause = "state_root"]
       ELSE IF state_root \notin DOMAIN state_size
       THEN kret' = [call EXCEPT !.kind = "Panic", !.cause = "state_size"]
       ELSE kret' = [call EXCEPT !.kind = "Ok",
                                 !.data = Serialize(state[state_root]),
                                 !.memory_usage = state_size[state_root]]

\* The state parts a node is handed: what obtain_state_part gives for a root of the
\* table, or bytes that are no snapshot.
StateParts == {Serialize(state[r]) : r \in DOMAIN state} \cup {Garbage}

NextLedger ==
    \/ /\ LedgerServes
       /\ \E prev_state_root \in DOMAIN state \cup {UnknownRoot}, shard_id \in ShardIds,
             c \in Chunks :
              apply_chunk(prev_state_root, shard_id, c[1], c[2], PoolGasPrice)
    \/ /\ LedgerServes
       /\ \E data \in StateParts, part_id \in PartIds :
              \E state_root \in DOMAIN state \cup {hash(data)} :
                  apply_state_part(state_root, part_id, data)
    \/ \E state_root \in DOMAIN state \cup {UnknownRoot}, part_id \in PartIds :
           obtain_state_part(state_root, part_id)
    \/ TakeResult

\* ------------------------------------------------------ specifications
NextEpoch ==
    \/ \E prev \in {DefaultHash} \cup Hashes, lfb \in {DefaultHash, UnknownHash} \cup Hashes :
           StoreHeader(prev, lfb)
    \/ \E prev_hash \in {DefaultHash} \cup Hashes : get_epoch_and_valset(prev_hash)
    \/ \E parent_hash \in {DefaultHash} \cup Hashes :
           get_epoch_block_approvers_ordered(parent_hash)

\* The epoch manager over a growing header store, the ledger at genesis.
InitEpoch ==
    /\ InitEpochManager
    /\ InitKeyValueRuntime

SpecEpoch == InitEpoch /\ [][NextEpoch]_vars

\* The epoch manager asked one call at a time, each result taken before the next
\* call; a call that panicked ends the run.
NextQueries ==
    \/ /\ eret.kind = "none"
       /\ \E prev \in {DefaultHash} \cup Hashes,
             lfb \in {DefaultHash, UnknownHash} \cup Hashes : StoreHeader(prev, lfb)
    \/ /\ eret.kind = "none"
       /\ \E prev_hash \in {DefaultHash} \cup Hashes : get_epoch_and_valset(prev_hash)
    \/ /\ eret.kind = "none"
       /\ \E prev_block_hash \in {DefaultHash} \cup Hashes :
              get_prev_epoch_id_from_prev_block(prev_block_hash)
    \/ /\ eret.kind = "none"
       /\ \E epoch_id \in EpochIds :
              \/ \E part_id \in QueryParts : get_part_owner(epoch_id, part_id)
              \/ \E height \in QueryHeights : get_block_producer(epoch_id, height)
              \/ \E height \in QueryHeights, shard_id \in ShardIds :
                     get_chunk_producer_info(epoch_id, height, shard_id)
              \/ \E account_id \in AccountIds :
                     get_validator_by_account_id(epoch_id, account_id)
              \/ \E account_id \in AccountIds, shard_id \in ShardIds :
                     cares_about_shard_in_epoch(epoch_id, account_id, shard_id)
              \/ \E other_epoch_id \in EpochIds :
                     compare_epoch_id(epoch_id, other_epoch_id)
    \/ TakeEpochResult

SpecQueries == InitEpoch /\ [][NextQueries]_vars

\* Headers stored and blocks queried one call at a time, and in between pairs of
\* queries made by two threads at once.
NextEpochConcurrent ==
    \/ /\ eret.kind = "none" /\ QueriesIdle
       /\ \E prev \in {DefaultHash} \cup Hashes,
             lfb \in {DefaultHash, UnknownHash} \cup Hashes : StoreHeader(prev, lfb)
    \/ /\ eret.kind = "none" /\ QueriesIdle
       /\ \E prev_hash \in Hashes : get_epoch_and_valset(prev_hash)
    \/ TakeEpochResult
    \/ \E prev_hash_1, prev_hash_2 \in {DefaultHash} \cup Hashes :
           BeginQueries(prev_hash_1, prev_hash_2)
    \/ \E i \in QueryIds : LookupHeaderStep(i)
    \/ \E i \in QueryIds : AcquireLocksStep(i)
    \/ \E i \in QueryIds : FinishQueryStep(i)
    \/ JoinQueries

SpecEpochConcurrent == InitEpoch /\ [][NextEpochConcurrent]_vars

\* The ledger of a runtime built over a fresh epoch manager.
InitLedger ==
    /\ InitEpochManager
    /\ epoch_length = 1
    /\ InitKeyValueRuntime

SpecLedger == InitLedger /\ [][NextLedger]_vars

\* Two apply_chunk calls with one input side by side, state parts applied between
\* such pairs.
NextConcurrent ==
    \/ \E i \in CallIds :
           /\ CallServed(i)
           /\ \E prev_state_root \in DOMAIN state \cup {UnknownRoot},
                 shard_id \in ShardIds, c \in SmallChunks, gas_price \in GasPrices :
                  BeginCall(i, prev_state_root, shard_id, c[1], c[2], gas_price)
    \/ \E i \in CallIds : InsertStateStep(i)
    \/ \E i \in CallIds : InsertSizeStep(i)
    \/ TakeResults
    \/ /\ AllIdle
       /\ LedgerServes
       /\ \E data \in StateParts :
              \E state_root \in DOMAIN state \cup {hash(data)} :
                  apply_state_part(state_root, 0, data)
    \/ TakeResult

SpecConcurrent == InitLedger /\ [][NextConcurrent]_vars

\* The chunks of the calls that run while state root nodes are asked for: one
\* transaction each.
NodeChunks == {c \in SmallChunks : c[1] = <<>> /\ c[2] # <<>>}

\* apply_chunk calls side by side, state parts applied, and state root nodes asked
\* for at every step of them.
NextStateRootNode ==
    \/ \E i \in CallIds :
           /\ CallServed(i)
           /\ \E prev_state_root \in DOMAIN state, shard_id \in ShardIds,
                 c \in NodeChunks, gas_price \in GasPrices :
                  BeginCall(i, prev_state_root, shard_id, c[1], c[2], gas_price)
    \/ \E i \in CallIds : InsertStateStep(i)
    \/ \E i \in CallIds : InsertSizeStep(i)
    \/ TakeResults
    \/ /\ AllIdle
       /\ LedgerServes
       /\ \E data \in StateParts :
              \E state_root \in DOMAIN state \cup {hash(data)} :
                  apply_state_part(state_root, 0, data)
    \/ \E state_root \in RootsAskedFor : get_state_root_node(state_root)
    \/ TakeResult

SpecStateRootNode == InitLedger /\ [][NextStateRootNode]_vars

\* Threads calling the epoch manager side by side.  The scheduler runs every
\* thread that can run, and a parking_lot lock is handed on fairly in the end: a
\* thread that can take its step again and again takes it.
NextLocks ==
    \E i \in ThreadIds :
        \/ \E call \in ThreadCalls : BeginThreadCall(i, call)
        \/ AcquireStep(i)
        \/ ReleaseStep(i)
        \/ ReturnStep(i)

SpecLocks ==
    /\ InitEpoch
    /\ [][NextLocks]_vars
    /\ \A i \in ThreadIds : SF_vars(ThreadStep(i))

\* Managers of every schedule length asked about the shards of the epoch before
\* and the epoch after, one call at a time.
NextSlots ==
    \/ \E len \in ScheduleLengths :
           \E valset \in 0 .. (len - 1), account_id \in AccountIds,
              shard_id \in ShardIds :
               \/ cares_about_shard_next_epoch_from_prev_block(len, valset, account_id,
                                                               shard_id)
               \/ cared_about_shard_prev_epoch_from_prev_block(len, valset, account_id,
                                                               shard_id)
    \/ TakeSlotResult

SpecSlots == InitEpoch /\ [][NextSlots]_vars

\* ===================================================================
\* Properties of the epoch index (checked under SpecEpoch)
\* ===================================================================
\* The last call was get_epoch_and_valset for a non-default prev_hash.
IsEpochQuery == eret.op = "get_epoch_and_valset" /\ eret.arg # DefaultHash

QueryOk == IsEpochQuery /\ eret.kind = "Ok"

PrevOf(h) == store[h].prev_hash

\* The valset index registered for the epoch memoized for h.
RegisteredValset(h) == hash_to_valset[hash_to_epoch[h]]

\* The valset index the query derives for the block built on h.
DerivedValset(h) == IF h = DefaultHash THEN 0 ELSE RegisteredValset(h)

\* The valset index an incremented epoch gets: the predecessor's + 1, 0 if it has none.
BoundaryValset(prev_prev_hash) ==
    IF prev_prev_hash \in DOMAIN hash_to_epoch
    THEN RegisteredValset(prev_prev_hash) + 1 ELSE 0

\* Height of the last final block of the block h, 0 when it is the default hash.
LastFinalHeightOf(h) ==
    IF store[h].last_final_block = DefaultHash THEN 0
    ELSE store[store[h].last_final_block].height

\* The rule of the epoch boundary, on the tables: the predecessor of h is the
\* default hash, or the last final height is within 3 of the end of the epoch that
\* started at the epoch start memoized for the predecessor.
BoundaryRule(h) ==
    \/ PrevOf(h) = DefaultHash
    \/ LastFinalHeightOf(h) + 3 >= epoch_start[PrevOf(h)] + epoch_length

\* C20: a query for prev_hash that returns increments the epoch (the epoch memoized
\* for prev_hash is the next epoch of its predecessor and starts at the height after
\* prev_hash) iff the predecessor of prev_hash is the default hash or
\* last_final_height + 3 >= epoch_start + epoch_length; otherwise the epoch id, the
\* next-epoch id, the valset index and the epoch start memoized for prev_hash are
\* those memoized for its predecessor.
C20_IncrementRule ==
    QueryOk =>
        /\ eret.increment_epoch <=> BoundaryRule(eret.arg)
        /\ eret.increment_epoch =>
               /\ hash_to_epoch[eret.arg] = hash_to_next_epoch[PrevOf(eret.arg)]
               /\ epoch_start[eret.arg] = store[eret.arg].height + 1
        /\ ~eret.increment_epoch =>
               /\ hash_to_epoch[eret.arg] = hash_to_epoch[PrevOf(eret.arg)]
               /\ hash_to_next_epoch[eret.arg] = hash_to_next_epoch[PrevOf(eret.arg)]
               /\ RegisteredValset(eret.arg) = RegisteredValset(PrevOf(eret.arg))
               /\ epoch_start[eret.arg] = epoch_start[PrevOf(eret.arg)]

\* A query returned without incrementing the epoch, the last final height read
\* from a stored header.
C20_Witness ==
    /\ QueryOk
    /\ ~eret.increment_epoch
    /\ store[eret.arg].last_final_block # DefaultHash

\* C3 as stated: at an epoch boundary the returned epoch id is EpochId(prev_hash) and
\* the returned next epoch id is the one memoized for prev_hash's predecessor, the
\* valset index is the predecessor's + 1 (0 if none), the epoch start is height + 1.
C3_AsStated ==
    (QueryOk /\ eret.increment_epoch) =>
        /\ eret.epoch = eret.arg
        /\ eret.next_epoch = hash_to_next_epoch[PrevOf(eret.arg)]
        /\ RegisteredValset(eret.arg) = BoundaryValset(PrevOf(eret.arg))
        /\ epoch_start[eret.arg] = store[eret.arg].height + 1

\* C3 amended: at an epoch boundary the returned epoch id is the next-epoch id
\* memoized for prev_hash's predecessor and the returned NEXT epoch id is
\* EpochId(prev_hash); the registered valset index is the predecessor's + 1 (0 if
\* none), returned modulo the schedule length; the epoch start is height + 1.
C3_BoundaryAssignment ==
    (QueryOk /\ eret.increment_epoch) =>
        /\ eret.epoch = hash_to_next_epoch[PrevOf(eret.arg)]
        /\ eret.next_epoch = eret.arg
        /\ hash_to_epoch[eret.arg] = eret.epoch
        /\ hash_to_next_epoch[eret.arg] = eret.next_epoch
        /\ RegisteredValset(eret.arg) = BoundaryValset(PrevOf(eret.arg))
        /\ eret.valset = RegisteredValset(eret.arg) % Len(validators_by_valset)
        /\ epoch_start[eret.arg] = store[eret.arg].height + 1

\* C3 witness: a boundary detected at a block whose predecessor has an assignment,
\* with the schedule cycled through.
C3_Witness ==
    /\ QueryOk /\ eret.increment_epoch
    /\ PrevOf(eret.arg) \in DOMAIN hash_to_epoch
    /\ RegisteredValset(eret.arg) >= Len(validators_by_valset)

\* C4 as stated: along a chain the derived valset index never decreases, is one
\* greater than the preceding block's at every detected boundary, equal elsewhere.
C4_AsStated ==
    QueryOk =>
        LET here == DerivedValset(eret.arg)
            before == DerivedValset(PrevOf(eret.arg))
        IN  /\ here >= before
            /\ eret.increment_epoch => here = before + 1
            /\ ~eret.increment_epoch => here = before

\* C4 amended: the registered (un-reduced) valset index never decreases along a
\* chain; it is one greater than the preceding block's at every detected boundary
\* except the one at a block built on the default hash, where it is 0 like the
\* index of the default hash itself, and equal everywhere else; the index returned
\* is the registered one modulo the schedule length.
C4_ValsetAlongChain ==
    /\ QueryOk =>
        LET here == DerivedValset(eret.arg)
            before == DerivedValset(PrevOf(eret.arg))
        IN  /\ here >= before
            /\ (eret.increment_epoch /\ PrevOf(eret.arg) # DefaultHash) => here = before + 1
            /\ (eret.increment_epoch /\ PrevOf(eret.arg) = DefaultHash) => here = 0
            /\ ~eret.increment_epoch => here = before
            /\ eret.valset = here % Len(validators_by_valset)
    /\ \A h \in DOMAIN hash_to_epoch :
        DerivedValset(h) - DerivedValset(PrevOf(h)) \in {0, 1}

\* C4 witness: a chain with an epoch carried forward after a boundary that raised
\* the index.
C4_Witness ==
    /\ QueryOk /\ ~eret.increment_epoch
    /\ RegisteredValset(eret.arg) >= 1

\* C7: what is memoized for a predecessor hash (epoch id, next epoch id, epoch
\* start, approvals flag) and the valset index of an epoch id never change, whatever
\* is queried later on the same or a forked branch, and a repeated query succeeds
\* and returns the stored triple again.
C7_MemoizedNeverAltered ==
    [][ /\ \A h \in DOMAIN hash_to_epoch :
            /\ h \in DOMAIN hash_to_epoch'
            /\ hash_to_epoch'[h] = hash_to_epoch[h]
            /\ hash_to_next_epoch'[h] = hash_to_next_epoch[h]
            /\ epoch_start'[h] = epoch_start[h]
            /\ hash_to_next_epoch_approvals_req'[h] = hash_to_next_epoch_approvals_req[h]
        /\ \A e \in DOMAIN hash_to_valset :
            e \in DOMAIN hash_to_valset' /\ hash_to_valset'[e] = hash_to_valset[e]
        /\ (store' = store /\ eret'.op = "get_epoch_and_valset"
                /\ eret'.arg \in DOMAIN hash_to_epoch) =>
            /\ eret'.kind = "Ok"
            /\ eret'.epoch = hash_to_epoch[eret'.arg]
            /\ eret'.next_epoch = hash_to_next_epoch[eret'.arg]
            /\ eret'.valset = RegisteredValset(eret'.arg) % Len(validators_by_valset)
        /\ (store' = store /\ eret'.op = "get_epoch_and_valset" /\ eret'.kind = "Ok"
                /\ eret'.arg # DefaultHash) =>
            /\ eret'.epoch = hash_to_epoch'[eret'.arg]
            /\ eret'.next_epoch = hash_to_next_epoch'[eret'.arg]
      ]_vars

\* C7 witness: a memoized hash queried again while a fork of its chain is memoized.
C7_Witness ==
    /\ QueryOk /\ eret.memoized_before
    /\ \E h1, h2 \in DOMAIN hash_to_epoch :
        /\ h1 # h2 /\ PrevOf(h1) = PrevOf(h2) /\ PrevOf(h1) # DefaultHash
        /\ eret.arg \in {h1, PrevOf(h1)}

\* C8: the query for a non-default prev_hash whose header is neither cached nor
\* stored returns MissingBlock(prev_hash) and changes no memoization table.
C8_MissingBlock ==
    [][ (/\ store' = store
         /\ eret'.op = "get_epoch_and_valset"
         /\ eret'.arg # DefaultHash
         /\ eret'.arg \notin DOMAIN headers_cache
         /\ eret'.arg \notin DOMAIN store) =>
            /\ eret'.kind = "Err"
            /\ eret'.cause = "MissingBlock"
            /\ eret'.err = eret'.arg
            /\ UNCHANGED epochTables
      ]_vars

\* C8 witness: MissingBlock returned while the tables hold assignments.
C8_Witness ==
    /\ IsEpochQuery /\ eret.kind = "Err" /\ eret.cause = "MissingBlock"
    /\ eret.err = eret.arg
    /\ eret.arg \notin DOMAIN store
    /\ DOMAIN hash_to_epoch # {}

\* The step is a get_epoch_and_valset call for a stored block.
IsQueryStep ==
    /\ store' = store
    /\ eret'.op = "get_epoch_and_valset"
    /\ eret'.arg \in DOMAIN store

\* C21: a query for prev_hash made while nothing is memoized for the predecessor of
\* prev_hash fails on the lookup of the predecessor's entry (the unwrap of the absent
\* entry aborts the call) and leaves every memoization table as it was, nothing
\* being memoized for prev_hash; and a query that returns, whether or not an earlier
\* one for the same prev_hash failed, memoizes the assignment that the rule of the
\* epoch boundary derives from the predecessor's entries.
C21_EarlyQueryFails ==
    [][/\ (IsQueryStep /\ PrevOf(eret'.arg) \notin DOMAIN hash_to_next_epoch) =>
              /\ eret'.kind = "Panic"
              /\ UNCHANGED epochTables
              /\ eret'.arg \notin DOMAIN hash_to_epoch'
       /\ (IsQueryStep /\ eret'.kind = "Ok") =>
              LET h == eret'.arg
                  p == PrevOf(eret'.arg)
              IN  /\ p \in DOMAIN hash_to_next_epoch
                  /\ IF BoundaryRule(h)
                     THEN /\ hash_to_epoch'[h] = hash_to_next_epoch[p]
                          /\ hash_to_next_epoch'[h] = h
                          /\ hash_to_valset'[hash_to_epoch'[h]] = BoundaryValset(p)
                          /\ epoch_start'[h] = store[h].height + 1
                     ELSE /\ hash_to_epoch'[h] = hash_to_epoch[p]
                          /\ hash_to_next_epoch'[h] = hash_to_next_epoch[p]
                          /\ hash_to_valset'[hash_to_epoch'[h]] = RegisteredValset(p)
                          /\ epoch_start'[h] = epoch_start[p]]_vars

\* A query returned for a block that had no assignment although its header had been
\* looked up before: no stored block names it as last final block, so that lookup
\* was an earlier query for the same block that memoized nothing.
C21_Witness ==
    /\ QueryOk
    /\ ~eret.memoized_before
    /\ eret.cached_before
    /\ PrevOf(eret.arg) # DefaultHash
    /\ \A h \in DOMAIN store : store[h].last_final_block # eret.arg

\* C23: after a query for a non-default prev_hash that returns, the returned epoch
\* id and the returned next epoch id both have a registered valset index, and the
\* index of the next epoch id is one more than the index of the epoch id.
C23_NextValsetRegistered ==
    QueryOk =>
        /\ eret.epoch \in DOMAIN hash_to_valset
        /\ eret.next_epoch \in DOMAIN hash_to_valset
        /\ hash_to_valset[eret.next_epoch] = hash_to_valset[eret.epoch] + 1

\* A query that carried the epoch forward returned, the index of its next epoch
\* past the end of the schedule.
C23_Witness ==
    /\ QueryOk
    /\ ~eret.increment_epoch
    /\ eret.next_epoch \in DOMAIN hash_to_valset
    /\ hash_to_valset[eret.next_epoch] >= Len(validators_by_valset)

\* The last call was the query with the default hash, or one about a block built
\* directly on the default hash that returned.
IsGenesisQuery == QueryOk /\ PrevOf(eret.arg) = DefaultHash

MemoizedOk ==
    /\ eret.op \in {"get_epoch_and_valset", "get_epoch_block_approvers_ordered"}
    /\ eret.arg # DefaultHash
    /\ eret.kind = "Ok"

\* Block producers of the validator set of a registered epoch, in order.
BlockProducersOf(epoch_id) ==
    validators_by_valset[(hash_to_valset[epoch_id] % Len(validators_by_valset)) + 1]
        .block_producers

InSeq(x, seq) == \E i \in 1 .. Len(seq) : seq[i] = x

\* C24: the approvals flag memoized for prev_hash is true exactly when the epoch is
\* not incremented at prev_hash and height(prev_hash) + 3 >= epoch_start +
\* epoch_length; get_epoch_block_approvers_ordered(prev_hash) lists the block
\* producers of the current epoch in their order and, when the flag is true, after
\* them the block producers of the next epoch that are not among those, in their
\* order, and nobody else.
C24_ApprovalsFlag ==
    MemoizedOk =>
        LET h    == eret.arg
            flag == hash_to_next_epoch_approvals_req[h]
            current == BlockProducersOf(hash_to_epoch[h])
            next    == BlockProducersOf(hash_to_next_epoch[h])
        IN  /\ flag <=> /\ ~eret.increment_epoch
                        /\ store[h].height + 3 >= epoch_start[PrevOf(h)] + epoch_length
            /\ eret.op = "get_epoch_block_approvers_ordered" =>
                   LET approvers == eret.value[1]
                       accounts  == [i \in 1 .. Len(approvers) |-> approvers[i].account_id]
                       rest      == SubSeq(accounts, Len(current) + 1, Len(accounts))
                   IN  /\ Len(accounts) >= Len(current)
                       /\ SubSeq(accounts, 1, Len(current)) = current
                       /\ ~flag => rest = <<>>
                       /\ flag =>
                              /\ \A x \in AccountIds :
                                     InSeq(x, rest) <=> InSeq(x, next) /\ ~InSeq(x, current)
                              /\ \A i, j \in 1 .. Len(rest) :
                                     i < j =>
                                         \E k, l \in 1 .. Len(next) :
                                             k < l /\ next[k] = rest[i] /\ next[l] = rest[j]

\* The approvers of a block were returned with the flag true, a block producer of
\* the next epoch left out because the current epoch lists it.
C24_Witness ==
    /\ MemoizedOk
    /\ eret.op = "get_epoch_block_approvers_ordered"
    /\ hash_to_next_epoch_approvals_req[eret.arg]
    /\ Len(eret.value[1]) > Len(BlockProducersOf(hash_to_epoch[eret.arg]))
    /\ \E x \in AccountIds :
           /\ InSeq(x, BlockProducersOf(hash_to_next_epoch[eret.arg]))
           /\ InSeq(x, BlockProducersOf(hash_to_epoch[eret.arg]))

\* C9 as stated: whenever the query ends because a header it needs is absent (the
\* header of prev_hash, or the one its last_final_block names), it ends with the
\* recoverable error MissingBlock of that hash, never with a panic.
C9_AsStated ==
    (IsEpochQuery /\ eret.cause \in {"MissingBlock", "last_final_block"}) =>
        /\ eret.kind = "Err"
        /\ eret.err \notin DOMAIN store

\* ===================================================================
\* Properties of the ledger (checked under SpecLedger)
\* ===================================================================
\* The last call was an apply_chunk that returned.
IsChunkResult == kret.op = "apply_chunk" /\ kret.kind = "Ok"

\* The balance of an account as a query reads it: 0 when it has no entry.
Balance(amounts, a) == IF a \in DOMAIN amounts THEN amounts[a] ELSE 0

SameBalances(before, after) ==
    \A a \in AccountIds : Balance(before, a) = Balance(after, a)

\* The balance transfers of the last apply_chunk, in the order it went through them.
Steps == 1 .. Len(kret.trace)

TransactionSteps == {i \in Steps : kret.trace[i].t.origin = "transaction"}

\* The transfers queued for a transaction whose (receiver, nonce) was recorded by an
\* earlier chunk or by a transaction earlier in this one.
Replays ==
    {i \in TransactionSteps :
        \/ <<kret.trace[i].t.to, kret.trace[i].t.nonce>> \in kret.prev.tx_nonces
        \/ \E j \in TransactionSteps :
               /\ j < i
               /\ kret.trace[j].t.to = kret.trace[i].t.to
               /\ kret.trace[j].t.nonce = kret.trace[i].t.nonce}

\* A receipt of the list has its id in the applied set of the snapshot read.
HasAppliedReceipt ==
    \E i \in 1 .. Len(kret.receipts) :
        kret.receipts[i].receipt_id \in kret.prev.receipt_nonces

\* A receipt id comes twice in the list.
HasRepeatedReceipt ==
    \E i, j \in 1 .. Len(kret.receipts) :
        i < j /\ kret.receipts[i].receipt_id = kret.receipts[j].receipt_id

\* C1: an apply_chunk whose receipt list holds a receipt id that the snapshot it
\* reads has already applied, or holds one receipt id twice, panics: it returns no
\* result.
C1_DuplicateReceiptAborts ==
    kret.op = "apply_chunk" /\ (HasAppliedReceipt \/ HasRepeatedReceipt)
        => kret.kind = "Panic"

\* A receipt applied by an earlier chunk came again, and the call panicked on it.
C1_Witness ==
    /\ kret.op = "apply_chunk"
    /\ HasAppliedReceipt
    /\ kret.cause = "receipts should never be applied twice"

\* C2 as stated: every transaction with an already seen (receiver, nonce) yields
\* exactly one outcome and leaves every balance as it was.
C2_AsStated ==
    IsChunkResult =>
        \A i \in Replays :
            /\ Len(kret.trace[i].outcome) = 1
            /\ SameBalances(kret.trace[i].before, kret.trace[i].after)

\* C2: in an apply_chunk that returns, a transfer transaction with an already seen
\* (receiver, nonce) is queued with amount 0 and leaves every balance as it was; it
\* yields exactly one outcome when its signer has a balance entry and none when it
\* has not; an outgoing receipt it emits (receiver on another shard) carries 0.
C2_ReplayChangesNoBalance ==
    IsChunkResult =>
        \A i \in Replays :
            LET s == kret.trace[i] IN
            /\ s.t.amount = 0
            /\ SameBalances(s.before, s.after)
            /\ Len(s.outcome) = (IF s.t.from \in DOMAIN s.before THEN 1 ELSE 0)
            /\ \A k \in 1 .. Len(s.receipt) :
                   /\ s.receipt[k].actions = <<Transfer(0)>>
                   /\ account_id_to_shard_id(s.t.to) # kret.shard_id

\* A transaction recorded by an earlier chunk was replayed with a non-zero deposit
\* and got its one outcome.
C2_Witness ==
    /\ IsChunkResult
    /\ \E i \in Replays :
           /\ <<kret.trace[i].t.to, kret.trace[i].t.nonce>> \in kret.prev.tx_nonces
           /\ Len(kret.trace[i].outcome) = 1
           /\ \E k \in 1 .. Len(kret.transactions) :
                  /\ hash(kret.transactions[k]) = kret.trace[i].t.hash
                  /\ kret.transactions[k].actions[1].deposit > 0

\* C5 as stated: no step removes a state root from the table or makes one map to a
\* different snapshot.
C5_AsStated ==
    [][\A r \in DOMAIN state : r \in DOMAIN state' /\ state'[r] = state[r]]_vars

\* C5: no step removes a state root from the table.  apply_chunk leaves every entry
\* as it was but the one under the root it returns, which then holds the snapshot
\* with that content hash; apply_state_part leaves every entry as it was but the one
\* under the root it is given, which then holds the decoded data.
C5_RootsKept ==
    [][/\ \A r \in DOMAIN state : r \in DOMAIN state'
       /\ kret'.op = "apply_chunk" =>
              /\ \A r \in DOMAIN state \ {kret'.new_root} : state'[r] = state[r]
              /\ kret'.kind = "Ok" =>
                     hash(Serialize(state'[kret'.new_root])) = kret'.new_root
              /\ kret'.kind # "Ok" => state' = state
       /\ kret'.op = "apply_state_part" =>
              /\ \A r \in DOMAIN state \ {kret'.state_root} : state'[r] = state[r]
              /\ kret'.kind = "Ok" /\ kret'.part_id = 0 =>
                     Serialize(state'[kret'.state_root]) = kret'.data
              /\ kret'.kind # "Ok" \/ kret'.part_id # 0 => state' = state
       /\ kret'.op = "none" => state' = state]_vars

\* apply_state_part has put, under a root that apply_chunk had inserted, a snapshot
\* with another content hash.
C5_Witness ==
    /\ kret.op = "apply_state_part" /\ kret.kind = "Ok" /\ kret.part_id = 0
    /\ kret.state_root # EMPTY_ROOT
    /\ kret.state_root # hash(kret.data)
    /\ Cardinality(DOMAIN state) >= 2

\* C6 as stated: every state root of the table is the content hash of the serialized
\* snapshot it maps to.
C6_AsStated ==
    \A r \in DOMAIN state : r = hash(Serialize(state[r]))

\* C6: the root an apply_chunk returns is in the table and is the content hash of
\* the serialized snapshot it maps to, and the size recorded for it is the length of
\* that serialization.  (The genesis snapshot is under EMPTY_ROOT and a state part
\* under the root the caller gave.)
C6_ChunkRootIsContentHash ==
    IsChunkResult =>
        /\ kret.new_root \in DOMAIN state
        /\ kret.new_root = hash(Serialize(state[kret.new_root]))
        /\ kret.new_root \in DOMAIN state_size
        /\ state_size[kret.new_root] = DataLen(Serialize(state[kret.new_root]))

\* A chunk that records a receipt and a transaction was applied and its root holds
\* them, while the genesis snapshot still sits under EMPTY_ROOT.
C6_Witness ==
    /\ IsChunkResult
    /\ state[kret.new_root].receipt_nonces # {}
    /\ state[kret.new_root].tx_nonces # {}
    /\ state[EMPTY_ROOT] = GenesisKVState
    /\ EMPTY_ROOT # hash(Serialize(GenesisKVState))

\* The transfers of transactions with an unseen (receiver, nonce) whose receiver is
\* in the shard and whose signer holds at least the amount.
FreshLocalTransfers ==
    {i \in TransactionSteps \ Replays :
        LET s == kret.trace[i] IN
        /\ account_id_to_shard_id(s.t.from) = kret.shard_id
        /\ account_id_to_shard_id(s.t.to) = kret.shard_id
        /\ s.t.from \in DOMAIN s.before
        /\ s.before[s.t.from] >= s.t.amount}

\* One success outcome with no receipt ids, and no outgoing receipt.
LocalOutcomeOnly(s) ==
    /\ s.outcome = << [id |-> s.t.hash, status |-> "SuccessValue",
                       receipt_ids |-> <<>>, executor_id |-> s.t.to] >>
    /\ s.receipt = <<>>

\* C10 as stated: such a transfer takes the amount from the signer, adds it to the
\* receiver, leaves the others, and yields one success outcome and no receipt.
C10_AsStated ==
    IsChunkResult =>
        \A i \in FreshLocalTransfers :
            LET s == kret.trace[i] IN
            /\ Balance(s.after, s.t.from) = s.before[s.t.from] - s.t.amount
            /\ Balance(s.after, s.t.to) = Balance(s.before, s.t.to) + s.t.amount
            /\ \A a \in AccountIds \ {s.t.from, s.t.to} :
                   Balance(s.after, a) = Balance(s.before, a)
            /\ LocalOutcomeOnly(s)

\* C10: such a transfer between two different accounts takes the amount from the
\* signer, adds it to the receiver and leaves the others; one from an account to
\* itself leaves every balance as it was; both yield one success outcome with no
\* receipt ids and no outgoing receipt.
C10_LocalTransfer ==
    IsChunkResult =>
        \A i \in FreshLocalTransfers :
            LET s == kret.trace[i] IN
            /\ s.t.from # s.t.to =>
                   /\ Balance(s.after, s.t.from) = s.before[s.t.from] - s.t.amount
                   /\ Balance(s.after, s.t.to) = Balance(s.before, s.t.to) + s.t.amount
                   /\ \A a \in AccountIds \ {s.t.from, s.t.to} :
                          Balance(s.after, a) = Balance(s.before, a)
            /\ s.t.from = s.t.to => SameBalances(s.before, s.after)
            /\ LocalOutcomeOnly(s)

\* A transfer of a non-zero amount between two accounts of the shard was applied,
\* after an earlier transfer of the chunk had changed the balances.
C10_Witness ==
    /\ IsChunkResult
    /\ \E i \in FreshLocalTransfers :
           /\ kret.trace[i].t.from # kret.trace[i].t.to
           /\ kret.trace[i].t.amount > 0
           /\ kret.trace[i].before # kret.prev.amounts

\* The last apply_chunk was given no receipt and one transfer transaction, with an
\* unseen (receiver, nonce), whose signer is in the shard and holds at least the
\* deposit in the snapshot read.
SoleFreshTransaction ==
    /\ kret.op = "apply_chunk"
    /\ kret.state_root \in DOMAIN state
    /\ kret.receipts = <<>>
    /\ Len(kret.transactions) = 1
    /\ LET tx == kret.transactions[1] IN
       /\ tx.actions # <<>>
       /\ tx.actions[1].type = "Transfer"
       /\ <<tx.receiver_id, tx.nonce>> \notin kret.prev.tx_nonces
       /\ account_id_to_shard_id(tx.signer_id) = kret.shard_id
       /\ tx.signer_id \in DOMAIN kret.prev.amounts
       /\ kret.prev.amounts[tx.signer_id] >= tx.actions[1].deposit

SoleFreshRemoteTransaction ==
    /\ SoleFreshTransaction
    /\ account_id_to_shard_id(kret.transactions[1].receiver_id) # kret.shard_id

\* The transfers of transactions with an unseen (receiver, nonce) whose receiver is
\* in another shard and whose signer holds at least the amount.
FreshRemoteTransfers ==
    {i \in TransactionSteps \ Replays :
        LET s == kret.trace[i] IN
        /\ account_id_to_shard_id(s.t.to) # kret.shard_id
        /\ s.t.from \in DOMAIN s.before
        /\ s.before[s.t.from] >= s.t.amount}

\* The signer is debited, nobody is credited, one receipt for the amount goes to the
\* receiver and the one success outcome names it.
CrossShardEffect(s) ==
    /\ Balance(s.after, s.t.from) = s.before[s.t.from] - s.t.amount
    /\ \A a \in AccountIds \ {s.t.from} : Balance(s.after, a) = Balance(s.before, a)
    /\ Len(s.receipt) = 1
    /\ s.receipt[1].receiver_id = s.t.to
    /\ s.receipt[1].predecessor_id = s.t.from
    /\ s.receipt[1].receipt = "Action"
    /\ s.receipt[1].actions = <<[type |-> "Transfer", deposit |-> s.t.amount]>>
    /\ s.receipt[1].receipt_id = <<s.t.from, s.t.to, s.t.amount, s.t.nonce>>
    /\ s.outcome = << [id |-> s.t.hash, status |-> "SuccessValue",
                       receipt_ids |-> <<hash(s.receipt[1])>>,
                       executor_id |-> s.t.to] >>

\* C11 as stated: a fresh transaction of a funded local signer to a receiver in
\* another shard is applied: the call returns, the signer is debited, nobody is
\* credited, and one outgoing receipt for the amount goes with the one outcome.
C11_AsStated ==
    SoleFreshRemoteTransaction =>
        /\ kret.kind = "Ok"
        /\ Len(kret.trace) = 1
        /\ CrossShardEffect(kret.trace[1])

\* C11: in an apply_chunk that returns, every fresh transaction of a funded local
\* signer to a receiver in another shard has a non-zero nonce, debits the signer by
\* the amount, credits nobody, and emits one outgoing receipt for the amount to the
\* receiver, named by its one success outcome; given alone, such a transaction
\* makes the call return when its nonce is not 0 and panic when it is 0.
C11_CrossShardTransfer ==
    /\ IsChunkResult =>
           \A i \in FreshRemoteTransfers :
               /\ kret.trace[i].t.nonce # 0
               /\ CrossShardEffect(kret.trace[i])
               /\ \E k \in 1 .. Len(kret.outgoing_receipts) :
                      kret.outgoing_receipts[k] = kret.trace[i].receipt[1]
               /\ \E k \in 1 .. Len(kret.outcomes) :
                      kret.outcomes[k] = kret.trace[i].outcome[1]
    /\ SoleFreshRemoteTransaction =>
           IF kret.transactions[1].nonce = 0
           THEN kret.kind = "Panic"
           ELSE /\ kret.kind = "Ok"
                /\ FreshRemoteTransfers = {1}
                /\ kret.outgoing_receipts = kret.trace[1].receipt
                /\ kret.outcomes = kret.trace[1].outcome

\* A transaction moved a non-zero amount to another shard after an earlier transfer
\* of the chunk had changed the balances.
C11_Witness ==
    /\ IsChunkResult
    /\ \E i \in FreshRemoteTransfers :
           /\ kret.trace[i].t.amount > 0
           /\ kret.trace[i].before # kret.prev.amounts
           /\ Len(kret.outgoing_receipts) = 1

\* The transfers queued for the receipts of the last apply_chunk.
ReceiptSteps == {i \in Steps : kret.trace[i].t.origin = "receipt"}

\* C12 as stated: every unseen receipt with a transfer, applied on the shard of its
\* receiver, has its id recorded, adds the amount to the receiver's balance, and
\* takes nothing from any balance, whichever shard its predecessor is in.
C12_AsStated ==
    IsChunkResult =>
        \A i \in ReceiptSteps :
            LET s == kret.trace[i] IN
            /\ \E k \in 1 .. Len(kret.receipts) :
                   /\ hash(kret.receipts[k]) = s.t.hash
                   /\ kret.receipts[k].receipt_id \in state[kret.new_root].receipt_nonces
            /\ Balance(s.after, s.t.to) = Balance(s.before, s.t.to) + s.t.amount
            /\ \A a \in AccountIds : Balance(s.after, a) >= Balance(s.before, a)

\* The transfers from a sender of the shard whose balance is less than the amount.
UnderfundedTransfers ==
    {i \in Steps :
        /\ account_id_to_shard_id(kret.trace[i].t.from) = kret.shard_id
        /\ Balance(kret.trace[i].before, kret.trace[i].t.from) < kret.trace[i].t.amount}

\* The last apply_chunk was given no receipt and one transfer transaction, with an
\* unseen (receiver, nonce), whose signer is in the shard and holds less than the
\* deposit in the snapshot read.
SoleUnderfundedTransaction ==
    /\ kret.op = "apply_chunk"
    /\ kret.state_root \in DOMAIN state
    /\ kret.receipts = <<>>
    /\ Len(kret.transactions) = 1
    /\ LET tx == kret.transactions[1] IN
       /\ tx.actions # <<>>
       /\ tx.actions[1].type = "Transfer"
       /\ <<tx.receiver_id, tx.nonce>> \notin kret.prev.tx_nonces
       /\ account_id_to_shard_id(tx.signer_id) = kret.shard_id
       /\ Balance(kret.prev.amounts, tx.signer_id) < tx.actions[1].deposit

\* C13: a transfer from a sender of the shard whose balance is less than the amount
\* is dropped: it gets no outcome and no outgoing receipt and changes no balance,
\* and the apply_chunk it is part of returns all the same; given alone, it makes
\* the call return no outcome, no receipt and the balances it read.
C13_UnderfundedDropped ==
    /\ IsChunkResult =>
           \A i \in UnderfundedTransfers :
               /\ ~kret.trace[i].good_to_go
               /\ kret.trace[i].outcome = <<>>
               /\ kret.trace[i].receipt = <<>>
               /\ kret.trace[i].after = kret.trace[i].before
               /\ \A k \in 1 .. Len(kret.outcomes) :
                      kret.outcomes[k].id = kret.trace[i].t.hash =>
                          \E j \in Steps \ {i} :
                              kret.trace[j].outcome = <<kret.outcomes[k]>>
    /\ SoleUnderfundedTransaction =>
           /\ kret.kind = "Ok"
           /\ UnderfundedTransfers = {1}
           /\ kret.outcomes = <<>>
           /\ kret.outgoing_receipts = <<>>
           /\ state[kret.new_root].amounts = kret.prev.amounts

\* An underfunded transfer was dropped in a chunk whose other transfer was applied.
C13_Witness ==
    /\ IsChunkResult
    /\ \E i \in UnderfundedTransfers :
           /\ kret.trace[i].t.amount > Balance(kret.trace[i].before, kret.trace[i].t.from)
           /\ kret.trace[i].t.from \in DOMAIN kret.trace[i].before
           /\ Len(kret.outcomes) = 1

\* C15 as stated: an apply_chunk that returns leaves the snapshot under
\* prev_state_root and under every other root the table held as it was.
C15_AsStated ==
    [][kret'.op = "apply_chunk" /\ kret'.kind = "Ok" =>
           \A r \in DOMAIN state : r \in DOMAIN state' /\ state'[r] = state[r]]_vars

\* C15: an apply_chunk that returns changes the table only at new_state_root: the
\* roots afterwards are those before and new_state_root, every other root keeps
\* its snapshot, and new_state_root keeps its snapshot too if it was there with
\* the snapshot it is the content hash of; the snapshot under prev_state_root is
\* as it was whenever prev_state_root is not new_state_root.
C15_OnlyNewRootInserted ==
    [][kret'.op = "apply_chunk" /\ kret'.kind = "Ok" =>
           /\ DOMAIN state' = DOMAIN state \cup {kret'.new_root}
           /\ \A r \in DOMAIN state \ {kret'.new_root} : state'[r] = state[r]
           /\ kret'.new_root \in DOMAIN state
                  /\ hash(Serialize(state[kret'.new_root])) = kret'.new_root
                  => state' = state
           /\ kret'.state_root # kret'.new_root =>
                  state'[kret'.state_root] = kret'.prev
           /\ DOMAIN state_size' = DOMAIN state_size \cup {kret'.new_root}
           /\ \A r \in DOMAIN state_size \ {kret'.new_root} :
                  state_size'[r] = state_size[r]]_vars

\* A chunk applied on a root that an earlier chunk had inserted gave a third root,
\* and the snapshot it read is still under the root it read it from.
C15_Witness ==
    /\ IsChunkResult
    /\ Cardinality(DOMAIN state) = 3
    /\ kret.state_root # EMPTY_ROOT
    /\ kret.new_root \notin {kret.state_root, EMPTY_ROOT}
    /\ state[kret.state_root] = kret.prev
    /\ state[kret.new_root] # kret.prev

\* C19: obtain_state_part for a part index other than 0 returns empty data,
\* whatever the root, and changes no table; apply_state_part for a part index
\* other than 0 returns and leaves state and state_size as they were, whatever the
\* root and the data; obtain_state_part for part 0 of a root of the table returns
\* the serialized snapshot, which is not empty.
C19_OnlyPartZero ==
    [][/\ kret'.op = "obtain_state_part" =>
              /\ state' = state /\ state_size' = state_size
              /\ kret'.part_id # 0 => kret'.kind = "Ok" /\ kret'.data = <<>>
              /\ kret'.part_id = 0 /\ kret'.kind = "Ok" =>
                     /\ kret'.data = Serialize(state[kret'.state_root])
                     /\ kret'.data # <<>>
       /\ kret'.op = "apply_state_part" /\ kret'.part_id # 0 =>
              /\ kret'.kind = "Ok"
              /\ state' = state
              /\ state_size' = state_size]_vars

\* apply_state_part was given, for a part index other than 0, a serialized snapshot
\* other than the one under the root it named, and returned.
C19_Witness ==
    /\ kret.op = "apply_state_part"
    /\ kret.kind = "Ok"
    /\ kret.part_id # 0
    /\ kret.state_root \in DOMAIN state
    /\ IsSome(Deserialize(kret.data))
    /\ Deserialize(kret.data)[1] # state[kret.state_root]

HasTransfer(receipt) == receipt.actions[1].type = "Transfer"

HasActions(transaction) == transaction.actions # <<>>

\* The outcomes, and the outgoing receipts, of the steps of a trace in their order.
RECURSIVE OutcomesOf(_)
OutcomesOf(trace) ==
    IF trace = <<>> THEN <<>> ELSE Head(trace).outcome \o OutcomesOf(Tail(trace))

RECURSIVE ReceiptsOf(_)
ReceiptsOf(trace) ==
    IF trace = <<>> THEN <<>> ELSE Head(trace).receipt \o ReceiptsOf(Tail(trace))

\* C28: an apply_chunk that returns went through the transfers of its receipts in
\* input order and then through those of its transactions in input order, each
\* transfer against the balances the one before it left (the first against the
\* snapshot read, the last leaving the balances stored under the new root), and its
\* outcomes are those of the transfers in that same order.
C28_InputOrder ==
    IsChunkResult =>
        LET queued_receipts     == SelectSeq(kret.receipts, HasTransfer)
            queued_transactions == SelectSeq(kret.transactions, HasActions)
            n == Len(queued_receipts)
        IN  /\ Len(kret.trace) = n + Len(queued_transactions)
            /\ \A i \in 1 .. n :
                   /\ kret.trace[i].t.hash = hash(queued_receipts[i])
                   /\ kret.trace[i].t.origin = "receipt"
            /\ \A j \in 1 .. Len(queued_transactions) :
                   /\ kret.trace[n + j].t.hash = hash(queued_transactions[j])
                   /\ kret.trace[n + j].t.origin = "transaction"
            /\ \A i \in Steps :
                   kret.trace[i].before =
                       IF i = 1 THEN kret.prev.amounts ELSE kret.trace[i - 1].after
            /\ state[kret.new_root].amounts =
                   IF kret.trace = <<>> THEN kret.prev.amounts
                   ELSE kret.trace[Len(kret.trace)].after
            /\ kret.outcomes = OutcomesOf(kret.trace)
            /\ \A k \in 1 .. Len(kret.outcomes) :
                   \E i \in Steps : kret.outcomes[k].id = kret.trace[i].t.hash

\* The transfer of a transaction was paid from a balance that the snapshot read did
\* not hold and that the transfer of a receipt of the same chunk had credited.
C28_Witness ==
    /\ IsChunkResult
    /\ \E i, j \in Steps :
           /\ i < j
           /\ kret.trace[i].t.origin = "receipt"
           /\ kret.trace[j].t.origin = "transaction"
           /\ kret.trace[i].t.to = kret.trace[j].t.from
           /\ kret.trace[j].good_to_go
           /\ kret.trace[j].t.amount > 0
           /\ Balance(kret.prev.amounts, kret.trace[j].t.from) < kret.trace[j].t.amount

\* C29: an apply_chunk that returns has one outcome for every transfer it processed
\* and none for one it dropped; each outcome has success status, the id of its
\* transfer, and as receipt ids exactly the id of the outgoing receipt the transfer
\* spawned, none when the receiver is in the shard; so there are as many outgoing
\* receipts as outcomes with a receipt id.
C29_OneOutcomePerTransfer ==
    IsChunkResult =>
        /\ kret.outcomes = OutcomesOf(kret.trace)
        /\ kret.outgoing_receipts = ReceiptsOf(kret.trace)
        /\ Len(kret.outcomes) = Cardinality({i \in Steps : kret.trace[i].good_to_go})
        /\ Len(kret.outgoing_receipts) =
               Cardinality({k \in 1 .. Len(kret.outcomes) :
                               kret.outcomes[k].receipt_ids # <<>>})
        /\ \A i \in Steps :
               LET s == kret.trace[i] IN
               IF ~s.good_to_go
               THEN s.outcome = <<>> /\ s.receipt = <<>>
               ELSE /\ Len(s.outcome) = 1
                    /\ s.outcome[1].status = "SuccessValue"
                    /\ s.outcome[1].id = s.t.hash
                    /\ IF account_id_to_shard_id(s.t.to) = kret.shard_id
                       THEN s.receipt = <<>> /\ s.outcome[1].receipt_ids = <<>>
                       ELSE /\ Len(s.receipt) = 1
                            /\ s.outcome[1].receipt_ids = <<hash(s.receipt[1])>>

\* A chunk with a transfer that was dropped and one that spawned a receipt.
C29_Witness ==
    /\ IsChunkResult
    /\ \E i, j \in Steps :
           /\ ~kret.trace[i].good_to_go
           /\ kret.trace[j].receipt # <<>>

\* C30: what obtain_state_part gives for part 0 of a root of the table decodes to
\* the snapshot under that root; and apply_state_part with part 0 of a serialized
\* snapshot leaves, under the root it is given, the snapshot the data decodes to,
\* which serializes to the same data again.  So importing under R what was
\* exported for R leaves R mapped to an equal snapshot, in whichever table.  (The
\* snapshots of the table are looked at between calls: a call's result in hand
\* changes none of them.)
C30_RoundTrip ==
    /\ kret.kind = "none" =>
           \A r \in DOMAIN state : Deserialize(Serialize(state[r])) = <<state[r]>>
    /\ (kret.op = "obtain_state_part" /\ kret.kind = "Ok" /\ kret.part_id = 0) =>
           Deserialize(kret.data) = <<state[kret.state_root]>>
    /\ (kret.op = "apply_state_part" /\ kret.part_id = 0
            /\ IsSome(Deserialize(kret.data))) =>
           /\ kret.kind = "Ok"
           /\ kret.state_root \in DOMAIN state
           /\ <<state[kret.state_root]>> = Deserialize(kret.data)
           /\ Serialize(state[kret.state_root]) = kret.data

\* A snapshot with applied receipt ids and (account, nonce) pairs was imported under
\* the root it is exported for, its content hash.
C30_Witness ==
    /\ kret.op = "apply_state_part"
    /\ kret.kind = "Ok"
    /\ kret.part_id = 0
    /\ state[kret.state_root].receipt_nonces # {}
    /\ state[kret.state_root].tx_nonces # {}
    /\ kret.state_root = hash(kret.data)

\* ===================================================================
\* Properties of the epoch-keyed queries (checked under SpecQueries)

Registered(epoch_id) == epoch_id \in DOMAIN hash_to_valset

\* The validator set governing a registered epoch: the schedule is reused cyclically.
GoverningSet(epoch_id) ==
    validators_by_valset[(hash_to_valset[epoch_id] % Len(validators_by_valset)) + 1]

\* block_producers[(part_id + num_data_parts + num_total_parts) mod len]
ExpectedPartOwner(epoch_id, part_id) ==
    LET producers == GoverningSet(epoch_id).block_producers IN
    producers[((part_id + num_data_parts + num_total_parts) % Len(producers)) + 1]

\* C16: get_part_owner(epoch, part_id) for a registered epoch returns
\* block_producers[(part_id + num_data_parts + num_total_parts) mod len] of the
\* epoch's validator set and changes no table; and no step of any sequence of calls
\* changes the owner of a part of a registered epoch, so that the same inputs get
\* the same owner at any point.
C16_PartOwner ==
    [][/\ (eret'.op = "get_part_owner" /\ eret.op # "get_part_owner"
             /\ Registered(eret'.arg)) =>
              /\ eret'.kind = "Ok"
              /\ eret'.value = <<ExpectedPartOwner(eret'.arg, eret'.part_id)>>
              /\ UNCHANGED <<store, headers_cache, epochTables>>
       /\ \A epoch_id \in DOMAIN hash_to_valset, part_id \in QueryParts :
              /\ Registered(epoch_id)'
              /\ ExpectedPartOwner(epoch_id, part_id)' =
                     ExpectedPartOwner(epoch_id, part_id)]_vars

\* get_part_owner answered for an epoch whose valset index is past the end of the
\* schedule, with a validator other than the first of the set.
C16_Witness ==
    /\ eret.op = "get_part_owner"
    /\ eret.kind = "Ok"
    /\ hash_to_valset[eret.arg] >= Len(validators_by_valset)
    /\ eret.value # <<GoverningSet(eret.arg).block_producers[1]>>

EpochQueries ==
    {"get_part_owner", "get_block_producer", "get_chunk_producer_info",
     "get_validator_by_account_id", "cares_about_shard_in_epoch"}

ReturnedEpochOutOfBounds ==
    /\ eret.kind = "Err"
    /\ eret.cause = "EpochOutOfBounds"
    /\ eret.err = eret.arg

\* C17 as stated: each of the five queries, asked about an epoch id without a
\* registered valset index, returns the error EpochOutOfBounds(epoch_id).
C17_AsStated ==
    (eret.op \in EpochQueries /\ ~Registered(eret.arg)) => ReturnedEpochOutOfBounds

\* C17 amended: the block producer, chunk producer, part owner and validator lookup
\* queries, asked about an epoch id without a registered valset index, return the
\* error EpochOutOfBounds(epoch_id); cares_about_shard_in_epoch panics on it and
\* returns nothing.
C17_EpochOutOfBounds ==
    (eret.op \in EpochQueries /\ ~Registered(eret.arg)) =>
        IF eret.op = "cares_about_shard_in_epoch"
        THEN eret.kind = "Panic"
        ELSE ReturnedEpochOutOfBounds

\* The chunk producer of an epoch id without a registered valset index was asked for.
C17_Witness ==
    /\ eret.op = "get_chunk_producer_info"
    /\ ~Registered(eret.arg)
    /\ ReturnedEpochOutOfBounds

\* The accounts of a validator set: its block producers and the chunk producers of
\* its shards.
AccountsOf(validators) ==
    {validators.block_producers[i] : i \in 1 .. Len(validators.block_producers)}
        \cup UNION {{validators.chunk_producers[s][i] :
                         i \in 1 .. Len(validators.chunk_producers[s])} :
                    s \in 1 .. Len(validators.chunk_producers)}

\* C18: for a registered epoch, get_validator_by_account_id returns
\* NotAValidator(account, epoch) exactly when the account is neither a block
\* producer nor a chunk producer of any shard of the validator set governing the
\* epoch, and the stake record of the account otherwise.
C18_ValidatorLookup ==
    (eret.op = "get_validator_by_account_id" /\ Registered(eret.arg)) =>
        IF eret.account_id \in AccountsOf(GoverningSet(eret.arg))
        THEN /\ eret.kind = "Ok"
             /\ eret.value = <<[account_id |-> eret.account_id,
                                public_key |-> <<"ED25519", eret.account_id>>,
                                stake |-> 1000000]>>
        ELSE /\ eret.kind = "Err"
             /\ eret.cause = "NotAValidator"
             /\ eret.err_account = eret.account_id
             /\ eret.err = eret.arg

\* The stake record of an account that produces chunks only was returned.
C18_Witness ==
    /\ eret.op = "get_validator_by_account_id"
    /\ eret.kind = "Ok"
    /\ \A i \in 1 .. Len(GoverningSet(eret.arg).block_producers) :
           GoverningSet(eret.arg).block_producers[i] # eret.account_id

\* C26: the slot index that get_epoch_and_valset returns, and the one each of the
\* five accessors works with, lies in [0, schedule length) and is the valset index
\* registered for the epoch modulo the schedule length; the block producer and the
\* part owner an accessor returns are producers of the set in that slot.
C26_SlotIndex ==
    (eret.kind = "Ok" /\ eret.op \in EpochQueries \cup {"get_epoch_and_valset"}) =>
        LET epoch_id == IF eret.op = "get_epoch_and_valset" THEN eret.epoch ELSE eret.arg
        IN  /\ eret.valset \in 0 .. (Len(validators_by_valset) - 1)
            /\ eret.valset = hash_to_valset[epoch_id] % Len(validators_by_valset)
            /\ eret.op \in {"get_block_producer", "get_part_owner"} =>
                   InSeq(eret.value[1], validators_by_valset[eret.valset + 1].block_producers)

\* The query returned for an epoch whose registered index is past the end of the
\* schedule.
C26_Witness ==
    /\ eret.op = "get_epoch_and_valset"
    /\ eret.kind = "Ok"
    /\ hash_to_valset[eret.epoch] >= Len(validators_by_valset)

\* C27: for a registered epoch, get_block_producer(epoch, h) returns the account of
\* block_producers[h mod len] and get_chunk_producer_info for (shard index s,
\* height h) returns the stake of chunk_producers[s][(s + h + 1) mod len] of the
\* validator set governing the epoch: the answer is a function of that set, s and h.
C27_ProducerFormulas ==
    /\ (eret.op = "get_block_producer" /\ Registered(eret.arg)) =>
           LET producers == GoverningSet(eret.arg).block_producers IN
           /\ eret.kind = "Ok"
           /\ eret.value = <<producers[(eret.height % Len(producers)) + 1]>>
    /\ (eret.op = "get_chunk_producer_info" /\ Registered(eret.arg)) =>
           LET producers == GoverningSet(eret.arg).chunk_producers[eret.shard_id + 1]
               chosen == producers[((eret.shard_id + eret.height + 1) % Len(producers)) + 1]
           IN  /\ eret.kind = "Ok"
               /\ eret.value[1].account_id = chosen
               /\ eret.value[1].stake = 1000000

\* The chunk producer of a shard with several producers was asked for, and it was
\* not the first of them.
C27_Witness ==
    /\ eret.op = "get_chunk_producer_info"
    /\ eret.kind = "Ok"
    /\ Len(GoverningSet(eret.arg).chunk_producers[eret.shard_id + 1]) > 1
    /\ eret.value[1].account_id # GoverningSet(eret.arg).chunk_producers[eret.shard_id + 1][1]

\* ===================================================================
\* Properties of apply_chunk calls side by side (checked under SpecConcurrent)
\* ===================================================================
BothFinished == \A i \in CallIds : CallFinished(i)

\* The gas prices the receipts of a list carry: that of the block of the call that
\* emitted them.
GasPricesIn(receipts) == {receipts[k].gas_price : k \in 1 .. Len(receipts)}

\* What a call gives back to its caller.
CallResult(i) ==
    [pc |-> calls[i].pc, new_root |-> calls[i].new_root,
     outcomes |-> calls[i].outcomes, outgoing_receipts |-> calls[i].outgoing_receipts]

\* Both calls computed from the snapshot that was under prev_state_root when the
\* first started, ended alike with the same root (and, the gas price of their blocks
\* being the same, with the same result), and the roots returned are in the table.
SameResultFromStart ==
    /\ \A i \in CallIds : calls[i].read = calls[i].at_start
    /\ calls[1].pc = calls[2].pc
    /\ calls[1].new_root = calls[2].new_root
    /\ GasPricesIn(calls[1].outgoing_receipts) = GasPricesIn(calls[2].outgoing_receipts)
           => CallResult(1) = CallResult(2)
    /\ \A i \in CallIds :
           calls[i].pc = "returned" =>
               /\ calls[i].new_root \in DOMAIN state
               /\ state[calls[i].new_root] = calls[i].new_state

\* C14 as stated: two apply_chunk calls with one input on one prev_state_root, in
\* any interleaving, each compute from the snapshot under prev_state_root alone,
\* see nothing of each other, and the roots they return are in the table.
C14_AsStated == BothFinished => SameResultFromStart

\* C14: when prev_state_root is EMPTY_ROOT or the content hash of the snapshot under
\* it, two apply_chunk calls with one input on it, in any interleaving, each
\* compute from that snapshot alone and see nothing of each other, and the roots
\* they return are in the table.  Whatever is under prev_state_root, each call
\* computes from the snapshot that was there when the first started or from the
\* snapshot the other call inserted, and a root returned holds the snapshot of the
\* call that returned it.
C14_IndependentCalls ==
    BothFinished =>
        /\ \/ calls[1].state_root = EMPTY_ROOT
           \/ calls[1].state_root = hash(Serialize(calls[1].at_start))
           => SameResultFromStart
        /\ \A i \in CallIds : \A j \in CallIds \ {i} :
               /\ calls[i].state_root = calls[j].state_root
               /\ \/ calls[i].read = calls[i].at_start
                  \/ /\ calls[i].read = calls[j].new_state
                     /\ calls[j].new_root = calls[i].state_root
               /\ calls[i].pc = "returned" =>
                      /\ calls[i].new_root \in DOMAIN state
                      /\ state[calls[i].new_root] = calls[i].new_state

\* Two calls that overlapped returned a root other than the one they read, holding
\* a snapshot other than the one they read.
C14_Witness ==
    /\ \A i \in CallIds : calls[i].pc = "returned"
    /\ \E i \in CallIds : calls[i].overlap
    /\ calls[1].new_root # calls[1].state_root
    /\ calls[1].new_state # calls[1].read
    /\ calls[1].state_root # EMPTY_ROOT
\* ===================================================================
\* Properties of queries side by side (checked under SpecEpochConcurrent)

\* The blocks before h on its chain.
AncestorsOf(h) == AncestorsOrSelf(h) \ {h}

\* The two threads queried blocks of two branches: neither block is the other or
\* comes before it.  The default hash is on every branch.
DisjointBranches ==
    LET h1 == queries[1].prev_hash
        h2 == queries[2].prev_hash
    IN  /\ h1 \in DOMAIN store /\ h2 \in DOMAIN store
        /\ h1 \notin AncestorsOrSelf(h2)
        /\ h2 \notin AncestorsOrSelf(h1)

\* Every block that comes before both had its assignment memoized when the two
\* queries started.
CommonAncestorsMemoized ==
    \A a \in AncestorsOf(queries[1].prev_hash) \cap AncestorsOf(queries[2].prev_hash) :
        a \in DOMAIN queries[1].at_start[1].hash_to_epoch

\* The tables after the inserts of a call that ends as outcome says.
AfterOutcome(tables, prev_hash, outcome) ==
    IF outcome.memo = <<>> THEN tables
    ELSE LET m == outcome.memo[1] IN
         [hash_to_epoch |-> Put(tables.hash_to_epoch, prev_hash, m.a.epoch),
          hash_to_next_epoch_approvals_req |->
              Put(tables.hash_to_next_epoch_approvals_req, prev_hash, m.approvals),
          hash_to_next_epoch |-> Put(tables.hash_to_next_epoch, prev_hash, m.a.next_epoch),
          hash_to_valset |->
              Put(Put(tables.hash_to_valset, m.a.epoch, m.a.valset),
                  m.a.next_epoch, m.a.valset + 1),
          epoch_start |-> Put(tables.epoch_start, prev_hash, m.a.epoch_start)]

\* The call of thread i ended as it would have by itself.
EndedAsAlone(i) ==
    LET q == queries[i] IN
    /\ q.kind = q.alone[1].kind
    /\ q.cause = q.alone[1].cause
    /\ <<q.epoch, q.valset, q.next_epoch>> =
           <<q.alone[1].epoch, q.alone[1].valset, q.alone[1].next_epoch>>

\* C22: two queries made at once for blocks of disjoint branches, every common
\* ancestor memoized before, end under every interleaving as each would by itself
\* (same triple, or the same failure), and leave the tables as the two calls made
\* one after the other leave them, in either order: the tables at the start with
\* the inserts of both.
C22_DisjointBranches ==
    (QueriesDone /\ DisjointBranches /\ CommonAncestorsMemoized) =>
        LET q1 == queries[1]
            q2 == queries[2]
            start == q1.at_start[1]
        IN  /\ EndedAsAlone(1)
            /\ EndedAsAlone(2)
            /\ TablesNow = AfterOutcome(AfterOutcome(start, q1.prev_hash, q1.alone[1]),
                                        q2.prev_hash, q2.alone[1])
            /\ TablesNow = AfterOutcome(AfterOutcome(start, q2.prev_hash, q2.alone[1]),
                                        q1.prev_hash, q1.alone[1])

\* Two blocks built on one memoized block, neither memoized yet, were queried at
\* once and both queries returned.
C22_Witness ==
    /\ QueriesDone
    /\ DisjointBranches
    /\ queries[1].kind = "Ok" /\ queries[2].kind = "Ok"
    /\ PrevOf(queries[1].prev_hash) = PrevOf(queries[2].prev_hash)
    /\ PrevOf(queries[1].prev_hash) # DefaultHash
    /\ queries[1].prev_hash \notin DOMAIN queries[1].at_start[1].hash_to_epoch
    /\ queries[2].prev_hash \notin DOMAIN queries[1].at_start[1].hash_to_epoch

\* ===================================================================
\* Properties of the order of epochs (checked under SpecQueries)
\* ===================================================================
\* Two epochs of one chain: distinct epoch ids, registered with different valset
\* indices (two epochs of different branches may share an index).
EpochsOfOneChain(epoch_id, other_epoch_id) ==
    /\ epoch_id # other_epoch_id
    /\ Registered(epoch_id) /\ Registered(other_epoch_id)
    /\ hash_to_valset[epoch_id] # hash_to_valset[other_epoch_id]

C39_AsStated ==
    (/\ eret.op = "get_prev_epoch_id_from_prev_block"
     /\ eret.memoized_before
     /\ eret.kind # "Err") =>
        /\ eret.kind = "Ok"
        /\ RegisteredValset(eret.arg) >= 1 =>
               /\ Registered(eret.epoch)
               /\ hash_to_valset[eret.epoch] = RegisteredValset(eret.arg) - 1

\* ===================================================================
\* Properties of the neighbouring epochs' shards (checked under SpecSlots)
\* ===================================================================
\* C40 as stated: cared_about_shard_prev_epoch_from_prev_block reads the chunk
\* producers of the cyclic predecessor, (slot + length - 1) mod length, of the slot
\* the epoch query returned, and answers whether the account is among them, for
\* every length of the schedule and also for slot 0.
C40_AsStated ==
    slot_query.op = "cared_about_shard_prev_epoch_from_prev_block" =>
        LET predecessor == (slot_query.valset + slot_query.len - 1) % slot_query.len IN
        /\ slot_query.consulted = predecessor
        /\ slot_query.value =
               IsChunkProducerAt(ScheduleOfLength(slot_query.len), predecessor,
                                 slot_query.account_id, slot_query.shard_id)

\* ===================================================================
\* Properties of the locks of the epoch manager (checked under SpecLocks)
\* ===================================================================
\* A thread whose call has begun and not returned
InCall(i) == threads[i].op # "none"

\* A thread that can take the next step of its call
CanStep(i) ==
    /\ InCall(i)
    /\ \/ threads[i].todo = <<>>
       \/ Head(threads[i].todo).do = "release"
       \/ \A lock \in Head(threads[i].todo).locks :
              CanAcquire(i, lock, Head(threads[i].todo).mode)

\* While calls are under way one of them can take its next step.
NoCallStuck == (\E i \in ThreadIds : InCall(i)) => (\E i \in ThreadIds : CanStep(i))

\* C37: no interleaving of the epoch query, the lookups of the valset of an epoch,
\* the approvers query, the listing of the known epochs and the header loads
\* deadlocks, and every call a thread makes returns or fails in the end.
C37_NoDeadlock ==
    /\ []NoCallStuck
    /\ \A i \in ThreadIds : InCall(i) ~> ~InCall(i)

\* An epoch query holds the write lock of hash_to_epoch and is at the write() of
\* the next table while a listing of the known epochs is kept waiting at its
\* first read().
C37_Witness ==
    \E i, j \in ThreadIds :
        /\ threads[i].op = "get_epoch_and_valset"
        /\ threads[i].held = {<<"hash_to_epoch", "write">>}
        /\ threads[j].op = "possible_epochs_of_height_around_tip"
        /\ threads[j].todo = KnownEpochsLocks
        /\ ~CanStep(j)

\* ===================================================================
\* Properties of chains of chunks (checked under SpecLedger)

\* C31 as stated: the receipts an apply_chunk call emits (a chain of one call)
\* carry receipt ids that differ from one another.
C31_AsStated ==
    IsChunkResult =>
        \A i, j \in 1 .. Len(kret.outgoing_receipts) :
            i # j => kret.outgoing_receipts[i].receipt_id
                        # kret.outgoing_receipts[j].receipt_id

\* The sum of all balances of a snapshot.
RECURSIVE SumOfBalances(_, _)
SumOfBalances(amounts, accounts) ==
    IF accounts = {} THEN 0
    ELSE LET a == CHOOSE x \in accounts : TRUE
         IN  Balance(amounts, a) + SumOfBalances(amounts, accounts \ {a})

\* The sum of the deposits the transfer receipts of a list carry.
RECURSIVE SumOfDeposits(_)
SumOfDeposits(receipts) ==
    IF receipts = <<>> THEN 0
    ELSE (IF Head(receipts).actions # <<>> /\ HasTransfer(Head(receipts))
          THEN Head(receipts).actions[1].deposit ELSE 0)
             + SumOfDeposits(Tail(receipts))

\* C32 as stated: after an apply_chunk that returns, the balances of the new
\* snapshot sum to the sum of the balances of the snapshot read, plus the deposits of
\* the receipts applied, minus the deposits of the receipts emitted, and no balance
\* is below zero.
C32_AsStated ==
    IsChunkResult =>
        /\ SumOfBalances(state[kret.new_root].amounts, AccountIds)
               = SumOfBalances(kret.prev.amounts, AccountIds)
                     + SumOfDeposits(kret.receipts)
                     - SumOfDeposits(kret.outgoing_receipts)
        /\ \A a \in AccountIds : Balance(state[kret.new_root].amounts, a) >= 0

\* The causes apply_chunk panics with.
FatalConditions ==
    {"state_root", "only action receipts can be applied", "receipt receiver shard",
     "receipts should never be applied twice", "actions[0]", "transaction signer shard",
     "unreachable", "assert_ne!(nonce, 0)"}

\* C33: an apply_chunk call that panics (root not in the table, receipt applied
\* twice, receipt that is no action receipt, transaction whose action is no
\* transfer, receipt or transaction of another shard, or any other panic of the
\* call) leaves the snapshot table and the state-size table as they were.
C33_AbortInsertsNothing ==
    [][kret.kind = "none" /\ kret'.op = "apply_chunk" /\ kret'.kind = "Panic"
           => /\ kret'.cause \in FatalConditions
              /\ state' = state
              /\ state_size' = state_size]_vars

\* A call panicked on the second of two receipts with one id, after it had recorded
\* the first in its clone.
C33_Witness ==
    /\ kret.op = "apply_chunk"
    /\ kret.kind = "Panic"
    /\ kret.cause = "receipts should never be applied twice"
    /\ HasRepeatedReceipt
    /\ ~HasAppliedReceipt
    /\ Cardinality(DOMAIN state) > 1

\* The steps of transactions whose (receiver, nonce) the snapshot read had recorded.
Resubmitted ==
    {i \in TransactionSteps :
        <<kret.trace[i].t.to, kret.trace[i].t.nonce>> \in kret.prev.tx_nonces}

\* C34: an apply_chunk that returns has recorded, in the snapshot it inserts, the
\* (receiver, nonce) of every transfer transaction it went through, dropped or not,
\* and every pair the snapshot it read had recorded; and a transaction whose pair the
\* snapshot read had recorded is queued with amount 0, changes no balance, whatever
\* its signer holds by then, and emits at most a receipt of deposit 0.
C34_DroppedStaysRecorded ==
    IsChunkResult =>
        /\ kret.prev.tx_nonces \subseteq state[kret.new_root].tx_nonces
        /\ \A i \in TransactionSteps :
               <<kret.trace[i].t.to, kret.trace[i].t.nonce>>
                   \in state[kret.new_root].tx_nonces
        /\ \A i \in Resubmitted :
               /\ kret.trace[i].t.amount = 0
               /\ SameBalances(kret.trace[i].before, kret.trace[i].after)
               /\ \A k \in 1 .. Len(kret.trace[i].receipt) :
                      kret.trace[i].receipt[k].actions[1].deposit = 0

\* A transaction of a signer without a balance entry in the snapshot read, its pair
\* recorded there (it was dropped by an earlier chunk), came again after a receipt of
\* the same chunk had credited the signer more than its deposit.
C34_Witness ==
    /\ IsChunkResult
    /\ \E i \in Resubmitted :
           LET t == kret.trace[i].t IN
           /\ t.from \notin DOMAIN kret.prev.amounts
           /\ t.hash[1].actions[1].deposit > 0
           /\ Balance(kret.trace[i].before, t.from) >= t.hash[1].actions[1].deposit
           /\ kret.trace[i].good_to_go

\* ===================================================================
\* Properties of two apply_chunk calls compared (checked under SpecConcurrent)

\* Two calls ended that were given the same root, shard id, receipts and
\* transactions and cloned equal snapshots.
SameInputs ==
    /\ BothFinished
    /\ calls[1].state_root = calls[2].state_root
    /\ calls[1].shard_id = calls[2].shard_id
    /\ calls[1].receipts = calls[2].receipts
    /\ calls[1].transactions = calls[2].transactions
    /\ calls[1].read = calls[2].read

\* The receipts of a list with the gas price left out of account.
Repriced(receipts) ==
    [k \in 1 .. Len(receipts) |-> [receipts[k] EXCEPT !.gas_price = PoolGasPrice]]

\* The outcomes of a list without the hashes of the receipts they name.
Unnamed(outcomes) ==
    [k \in 1 .. Len(outcomes) |->
        [outcomes[k] EXCEPT !.receipt_ids = Len(outcomes[k].receipt_ids)]]

C36_AsStated ==
    /\ \A r \in DOMAIN state : r \in DOMAIN state_size
    /\ kret.op = "get_state_root_node" /\ kret.state_root \in DOMAIN state
           => kret.kind # "Panic"

====
